---- MODULE Spec2Model ----
\* A model of the EchoChamber WebSocket relay: the per-receiver OutputQueue
\* (src/src/OutputQueue.js) and the Chamber that relays between peers
\* (src/src/EchoChamber.js), and the directory of chambers by URL
\* (EchoChamberHalls).
EXTENDS Integers, Sequences, FiniteSets, TLC

VARIABLES
    oq,          \* SpecQ: one OutputQueue object (queue, activeSender, limits, connection)
    pos,         \* SpecQ: per sender, where it is in its own frame order
    calls,       \* SpecQ: number of addFrame calls made so far
    lastCall,    \* SpecQ: outcome of the latest OutputQueue call
    overflowed,  \* SpecQ: the messages whose queued frame made the capacity loop abort
    chamber,     \* Spec: the Chamber object (connections, the peer records, idCounter)
    sock,        \* Spec: per connection, the state of its socket
    inbound,     \* Spec: per connection, the message-part events still to come
    now,         \* Spec: Date.now()
    ops,         \* Spec: number of joins, messages begun and clock advances so far
    crashed,     \* Spec: an exception escaped an event handler (the process ends)
    lastOp,      \* Spec: the latest chamber operation and its outcome
    events,      \* Spec: the add and remove calls so far, in order
    halls,       \* SpecD: the EchoChamberHalls object (baseURL, permittedOrigins, limits, chambers)
    request,     \* SpecD: per connection, the URL it was accepted for, and its socket outside a chamber
    codec,       \* SpecH: a frame header being written and read back
    wsc,         \* SpecW: one WebSocketConnection, its socket and the bytes arriving on it
    server       \* SpecS: the WebSocketServer, its handlers and live connections

qvars == <<oq, pos, calls, lastCall, overflowed>>

cvars == <<chamber, sock, inbound, now, ops, crashed, lastOp, events>>

dvars == <<halls, request>>

wvars == <<codec, wsc, server>>

vars == <<qvars, cvars, dvars, wvars>>

-----------------------------------------------------------------------------
\* Bounds of the model

\* SpecQ: number of addFrame calls explored
MaxCalls == 4

\* Spec: number of joins, inbound messages begun and clock advances explored
MaxOps == 4

-----------------------------------------------------------------------------
\* Values

\* `null` (no active sender)
Null == 0

\* the opcode a connection's messages carry (text or binary)
OpcodeOf(s) == IF s = 2 THEN 2 ELSE 1

\* the Chamber object, the sender of join/leave notifications (`this`)
ChamberSender == 9

\* SpecQ: the connections that call addFrame
QConns == {1, 2, 3}

\* the limit bundles explored: the two-peer family's 0/0, and the defaults
\* (1024 items, 128K bytes) scaled down
LimitChoices ==
    { [MAX_QUEUE_ITEMS |-> 0, MAX_QUEUE_DATA |-> 0, HEADERS_MAX_LENGTH |-> 4],
      [MAX_QUEUE_ITEMS |-> 1, MAX_QUEUE_DATA |-> 1, HEADERS_MAX_LENGTH |-> 4],
      [MAX_QUEUE_ITEMS |-> 2, MAX_QUEUE_DATA |-> 1, HEADERS_MAX_LENGTH |-> 4] }

\* SpecQ: the payload of a relayed frame (its content is never read by the queue)
Payload == <<"x">>

-----------------------------------------------------------------------------
\* WebSocketConnection.sendFrame, as far as the relay uses it

\* A fresh connection: not closed, nothing written
NewConnection == [closed |-> FALSE, written |-> <<>>]

\* sendFrame(opcode, data, fin): nothing once closed, else header and payload
\* go to the socket. from/tag record which addFrame call the frame came from:
\* tag = <<message number of the sender, frame index in the message, call number>>.
SendFrame(connection, opcode, data, fin, from, tag) ==
    IF connection.closed
    THEN connection
    ELSE [connection EXCEPT !.written = Append(@,
            [opcode |-> opcode, len |-> Len(data), data |-> data, fin |-> fin,
             from |-> from, tag |-> tag])]

\* send(message) with a string: one text frame
Send(connection, message, from, tag) ==
    SendFrame(connection, 1, message, TRUE, from, tag)

-----------------------------------------------------------------------------
\* OutputQueue

\* obj.name is defined (a JavaScript property read of a missing name is undefined)
HasProp(obj, name) == name \in DOMAIN obj

\* queueDataBytes as the payload sum it was meant to be (reads item.info.data)
RECURSIVE QueueDataBytesOfInfo(_)
QueueDataBytesOfInfo(queue) ==
    IF queue = <<>>
    THEN [threw |-> FALSE, size |-> 0]
    ELSE LET rest == QueueDataBytesOfInfo(Tail(queue))
         IN [threw |-> FALSE, size |-> Len(Head(queue).info.data) + rest.size]

\* queueDataBytes: size += item.data.length over the items; an item is
\* {sender, info}, so item.data is undefined and reading its length throws
RECURSIVE QueueDataBytes(_)
QueueDataBytes(queue) ==
    IF queue = <<>>
    THEN [threw |-> FALSE, size |-> 0]
    ELSE IF ~HasProp(Head(queue), "data")
         THEN [threw |-> TRUE, size |-> 0]
         ELSE LET rest == QueueDataBytes(Tail(queue))
              IN [threw |-> rest.threw, size |-> Len(Head(queue).data) + rest.size]

\* queueBeyondCapacity with >= for >: a queue at its cap counts as beyond it
QueueBeyondCapacityInclusive(queue, limits) ==
    IF Len(queue) >= limits.MAX_QUEUE_ITEMS
    THEN [threw |-> FALSE, value |-> TRUE]
    ELSE LET bytes == QueueDataBytes(queue)
         IN IF bytes.threw
            THEN [threw |-> TRUE, value |-> FALSE]
            ELSE [threw |-> FALSE, value |-> bytes.size >= limits.MAX_QUEUE_DATA]

\* queueBeyondCapacity: length > MAX_QUEUE_ITEMS || queueDataBytes > MAX_QUEUE_DATA
QueueBeyondCapacity(queue, limits) ==
    IF Len(queue) > limits.MAX_QUEUE_ITEMS
    THEN [threw |-> FALSE, value |-> TRUE]
    ELSE LET bytes == QueueDataBytes(queue)
         IN IF bytes.threw
            THEN [threw |-> TRUE, value |-> FALSE]
            ELSE [threw |-> FALSE, value |-> bytes.size > limits.MAX_QUEUE_DATA]

\* new OutputQueue(connection, limits)
NewOutputQueue(connection, limits) ==
    [queue |-> <<>>, activeSender |-> Null, limits |-> limits, connection |-> connection]

\* _canSendFrom with the test dropped: every sender may always write
CanSendFromAnyone(q, sender) == TRUE

\* _canSendFrom
CanSendFrom(q, sender) == q.activeSender = Null \/ q.activeSender = sender

\* _handle without the skip of a continuation that has no active sender
HandleNoSkip(q, sender, info) ==
    LET hadActive == q.activeSender # Null
        conn == SendFrame(q.connection,
                    IF info.continuation THEN 0 ELSE info.opcode,
                    info.data, info.fin, sender, info.tag)
    IN IF info.fin
       THEN [q |-> [q EXCEPT !.connection = conn, !.activeSender = Null],
             ret |-> hadActive]
       ELSE [q |-> [q EXCEPT !.connection = conn, !.activeSender = sender],
             ret |-> FALSE]

\* _handle: returns whether a message that had been active has just finished
Handle(q, sender, info) ==
    LET hadActive == q.activeSender # Null
        conn == SendFrame(q.connection,
                    IF info.continuation THEN 0 ELSE info.opcode,
                    info.data, info.fin, sender, info.tag)
    IN IF ~hadActive /\ info.continuation
       THEN [q |-> q, ret |-> FALSE]
       ELSE IF info.fin
            THEN [q |-> [q EXCEPT !.connection = conn, !.activeSender = Null],
                  ret |-> hadActive]
            ELSE [q |-> [q EXCEPT !.connection = conn, !.activeSender = sender],
                  ret |-> FALSE]

\* one pass of the for loop of _consumeQueue, from index i (1-based) on
RECURSIVE ConsumePass(_, _, _, _)
ConsumePass(q, i, del, skip) ==
    IF i > Len(q.queue)
    THEN [q |-> [q EXCEPT !.queue = SubSeq(@, 1, Len(@) - del)], skip |-> skip]
    ELSE LET item == q.queue[i]
             Handled(h) ==
                 ConsumePass(h.q, i + 1, del + 1,
                     IF h.ret /\ del = i - 1 THEN FALSE ELSE h.ret)
         IN IF ~skip /\ CanSendFrom(q, item.sender)
            THEN Handled(Handle(q, item.sender, item.info))
            ELSE IF del > 0
                 THEN ConsumePass([q EXCEPT !.queue[i - del] = item], i + 1, del, skip)
                 ELSE ConsumePass(q, i + 1, del, skip)

\* _consumeQueue with a single pass: no rewind after a finished message
ConsumeQueueOnce(q) == ConsumePass(q, 1, 0, FALSE).q

\* _consumeQueue: passes over the queue until one ends without a rewind
RECURSIVE ConsumeQueue(_)
ConsumeQueue(q) ==
    LET Passed(pass) == IF ~pass.skip THEN pass.q ELSE ConsumeQueue(pass.q)
    IN Passed(ConsumePass(q, 1, 0, FALSE))

\* abortCurrent: zero-length continuation-fin, then 'X', then the queue resumes
AbortCurrent(q) ==
    IF q.activeSender = Null
    THEN q
    ELSE LET c1 == SendFrame(q.connection, 0, <<>>, TRUE, Null, <<0, 0, 0>>)
             c2 == Send(c1, <<"X">>, Null, <<0, 0, 0>>)
         IN ConsumeQueue([q EXCEPT !.connection = c2, !.activeSender = Null])

\* this.queue.unshift in place of push
QueueUnshift(queue, item) == <<item>> \o queue

\* this.queue.push({sender, info})
QueuePush(queue, item) == Append(queue, item)

\* the while loop of addFrame: abortCurrent until the queue is within capacity;
\* the capacity test may throw, which ends addFrame with the item still queued.
\* With no active sender abortCurrent returns at once and changes nothing, so
\* a queue beyond capacity would then keep the loop going for ever (spins).
RECURSIVE EnforceCapacity(_, _)
EnforceCapacity(q, aborts) ==
    LET Tested(beyond) ==
            IF beyond.threw
            THEN [q |-> q, threw |-> TRUE, aborts |-> aborts, spins |-> FALSE]
            ELSE IF beyond.value
                 THEN IF q.activeSender = Null
                      THEN [q |-> q, threw |-> FALSE, aborts |-> aborts,
                            spins |-> TRUE]
                      ELSE EnforceCapacity(AbortCurrent(q), aborts + 1)
                 ELSE [q |-> q, threw |-> FALSE, aborts |-> aborts,
                       spins |-> FALSE]
    IN Tested(QueueBeyondCapacity(q.queue, q.limits))

\* addFrame(sender, info): [q: the queue afterwards, threw: whether it raised,
\* aborts: how many times the capacity loop called abortCurrent, spins:
\* whether the capacity loop was left running for ever]
AddFrame(q, sender, info) ==
    IF CanSendFrom(q, sender)
    THEN LET Handled(h) ==
                 [q |-> IF h.ret THEN ConsumeQueue(h.q) ELSE h.q,
                  threw |-> FALSE, aborts |-> 0, spins |-> FALSE]
         IN Handled(Handle(q, sender, info))
    ELSE EnforceCapacity(
            [q EXCEPT !.queue = QueuePush(@, [sender |-> sender, info |-> info])], 0)

\* add(sender, message): a single-frame text message
Add(q, sender, message, tag) ==
    AddFrame(q, sender,
        [data |-> message, opcode |-> 1, continuation |-> FALSE, fin |-> TRUE,
         tag |-> tag])

\* the filter loop of removeSender
RemoveItemsOf(queue, sender) ==
    SelectSeq(queue, LAMBDA item : item.sender # sender)

\* removeSender without the abort of the sender's message in flight
RemoveSenderQueued(q, sender) == [q EXCEPT !.queue = RemoveItemsOf(@, sender)]

\* removeSender
RemoveSender(q, sender) ==
    IF sender = q.activeSender
    THEN AbortCurrent(q)
    ELSE [q EXCEPT !.queue = RemoveItemsOf(@, sender)]

\* the loop of closeSender: endsOpen = !item.fin for the sender's items; an
\* item is {sender, info}, so item.fin is undefined and !item.fin is true
RECURSIVE EndsOpen(_, _, _)
EndsOpen(queue, sender, endsOpen) ==
    IF queue = <<>>
    THEN endsOpen
    ELSE LET item == Head(queue)
             fin == IF HasProp(item, "fin") THEN item.fin ELSE FALSE
         IN EndsOpen(Tail(queue), sender,
                IF item.sender = sender THEN ~fin ELSE endsOpen)

\* closeSender
CloseSender(q, sender) ==
    IF EndsOpen(q.queue, sender, sender = q.activeSender)
    THEN RemoveSender(q, sender)
    ELSE q


-----------------------------------------------------------------------------
\* Strings and buffers, as sequences of one-character strings

Digits == <<"0", "1", "2", "3", "4", "5", "6", "7", "8", "9">>

\* String(n) for n >= 0
RECURSIVE IdString(_)
IdString(n) ==
    IF n < 10 THEN <<Digits[n + 1]>>
    ELSE IdString(n \div 10) \o <<Digits[(n % 10) + 1]>>

\* data.indexOf(c): the 0-based index of the first c, or -1
RECURSIVE IndexFrom(_, _, _)
IndexFrom(data, c, i) ==
    IF i > Len(data) THEN -1
    ELSE IF data[i] = c THEN i - 1
    ELSE IndexFrom(data, c, i + 1)

IndexOf(data, c) == IndexFrom(data, c, 1)

\* data.slice(n), n >= 0
Slice(data, n) == SubSeq(data, n + 1, Len(data))

\* str.split(sep): the pieces between separators (one empty piece for '')
RECURSIVE Split(_, _)
Split(str, sep) ==
    LET p == IndexOf(str, sep)
    IN IF p = -1 THEN <<str>>
       ELSE <<SubSeq(str, 1, p)>> \o Split(Slice(str, p + 1), sep)

\* Set.add on an insertion-ordered set
SetAdd(set, x) ==
    IF \E i \in 1..Len(set) : set[i] = x THEN set ELSE Append(set, x)

\* Set.delete
SetDelete(set, x) == SelectSeq(set, LAMBDA y : y # x)

\* Set.has
SetHas(set, x) == \E i \in 1..Len(set) : set[i] = x

\* Map.set on the insertion-ordered connections map (entries [id, ref])
MapSet(map, id, ref) ==
    IF \E i \in 1..Len(map) : map[i].id = id
    THEN [i \in 1..Len(map) |-> IF map[i].id = id THEN [id |-> id, ref |-> ref] ELSE map[i]]
    ELSE Append(map, [id |-> id, ref |-> ref])

\* Map.has
MapHas(map, id) == \E i \in 1..Len(map) : map[i].id = id

\* Map.get, for a key the map has
MapGet(map, id) == (CHOOSE e \in {map[i] : i \in 1..Len(map)} : e.id = id).ref

\* Map.delete
MapDelete(map, id) == SelectSeq(map, LAMBDA e : e.id # id)

-----------------------------------------------------------------------------
\* OnDemmandBuffer (the header buffer of a peer)

\* new OnDemmandBuffer(cap): no pooled buffer claimed yet
NewOnDemandBuffer(cap) == [buffer |-> FALSE, bytes |-> <<>>, cap |-> cap]

\* AppendableBuffer.add: copies what fits below the capacity
BufferAdd(b, data) ==
    [b EXCEPT !.bytes = @ \o SubSeq(data, 1,
        IF Len(data) < b.cap - Len(@) THEN Len(data) ELSE b.cap - Len(@))]

\* OnDemmandBuffer.clear
BufferClear(b) == [b EXCEPT !.buffer = FALSE, !.bytes = <<>>]

\* a size that is always reported as zero
BufferSizeZero(b) == 0

\* OnDemmandBuffer.size
BufferSize(b) == IF b.buffer THEN Len(b.bytes) ELSE 0

\* the new bytes alone, whatever is buffered
TestDataUnbuffered(b, data) == data

\* addAndTest, the data handed to fn: the buffered bytes and the new ones when
\* a buffer is in use, else the new ones alone
TestData(b, data) == IF b.buffer THEN BufferAdd(b, data).bytes ELSE data

\* addAndTest, the buffer afterwards, given fn's result
AfterTest(b, data, result) ==
    IF result THEN BufferClear(b)
    ELSE IF b.buffer THEN BufferAdd(b, data)
    ELSE BufferAdd([b EXCEPT !.buffer = TRUE, !.bytes = <<>>], data)

-----------------------------------------------------------------------------
\* WebSocketConnection.close and error, as far as the relay uses them

\* Buffer.byteLength of the close reasons the relay produces
ByteLength(message) ==
    IF message = "An internal error occurred" THEN 26
    ELSE IF message = "Header too large" THEN 16
    ELSE IF message = "Too many chambers" THEN 17
    ELSE IF message = "Chamber is full" THEN 15
    ELSE 0

\* close(code, message): the close frame is written unless already closed,
\* and the connection is closed
Close(connection, code, message) ==
    IF connection.closed
    THEN connection
    ELSE [SendFrame(connection, 8, <<code, message>>, TRUE, Null, <<0, 0, 0>>)
            EXCEPT !.closed = TRUE,
                   !.written[Len(connection.written) + 1].len = 2 + ByteLength(message)]

\* error(e) after the upgrade: status and message of an HttpError, else 1011;
\* err is "HttpError" (4000 Header too large), "TooManyChambers" or
\* "ChamberFull" (the HttpErrors with status 1013), or "TypeError"
Error(connection, err) ==
    IF err = "HttpError"
    THEN Close(connection, "4000", "Header too large")
    ELSE IF err = "TooManyChambers"
    THEN Close(connection, "1013", "Too many chambers")
    ELSE IF err = "ChamberFull"
    THEN Close(connection, "1013", "Chamber is full")
    ELSE Close(connection, "1011", "An internal error occurred")

-----------------------------------------------------------------------------
\* Chamber

\* 30000 ms: the age from which targetComparator takes a peer as established
ESTABLISHED_MS == 30000

\* new Chamber
NewChamber(limits) ==
    [connections |-> <<>>, details |-> <<>>, idCounter |-> 0, limits |-> limits]

\* the peer record of connection ref
Details(ch, ref) == ch.details[ref]

\* targetDetails.queue.addFrame(sender, frame) on the peer record ref; handed
\* lists the addFrame calls made on the peer's queue, each with the
\* activeSender it found
Deliver(ch, ref, sender, info) ==
    LET Added(r) ==
            [ch |-> [ch EXCEPT !.details[ref].queue = r.q,
                               !.details[ref].handed =
                                   Append(@, [sender |-> sender, info |-> info,
                                              found |-> ch.details[ref].queue.activeSender])],
             threw |-> r.threw]
    IN Added(AddFrame(ch.details[ref].queue, sender, info))

\* queue.add(this, message) on the peer record ref
Notify(ch, ref, message) ==
    Deliver(ch, ref, ChamberSender,
        [data |-> message, opcode |-> 1, continuation |-> FALSE, fin |-> TRUE,
         tag |-> <<0, 0, 0>>])

\* the loop of add over the connections, from entry i on: 'H<id>' to every
\* other peer, whose id joins the welcome message
RECURSIVE AddLoop(_, _, _, _)
AddLoop(ch, i, id, welcomeMessage) ==
    IF i > Len(ch.connections)
    THEN [ch |-> ch, welcomeMessage |-> welcomeMessage, threw |-> FALSE]
    ELSE LET entry == ch.connections[i]
             Notified(r) ==
                 IF r.threw
                 THEN [ch |-> r.ch, welcomeMessage |-> welcomeMessage, threw |-> TRUE]
                 ELSE AddLoop(r.ch, i + 1, id,
                         welcomeMessage \o <<":", "H">> \o entry.id)
         IN IF entry.id # id
            THEN Notified(Notify(ch, entry.ref, <<"H">> \o id))
            ELSE AddLoop(ch, i + 1, id, welcomeMessage)

\* the id add gives a new peer, were the counter not advanced past ids in use
ReusedIdCounter(ch) == Len(ch.connections)

\* the id add gives a new peer: idCounter ++
NextIdCounter(ch) == ch.idCounter

\* Chamber.add(newConnection): [ch, threw]
ChamberAdd(ch, ref, time) ==
    LET n == NextIdCounter(ch)
        id == IdString(n)
        details == [connection |-> ref,
                    queue |-> NewOutputQueue(NewConnection, ch.limits),
                    joined |-> time,
                    id |-> id,
                    headerBuffer |-> NewOnDemandBuffer(ch.limits.HEADERS_MAX_LENGTH),
                    headerLength |-> 0,
                    currentTargets |-> <<>>,
                    handed |-> <<>>]
        ch1 == [ch EXCEPT !.idCounter = n + 1,
                          !.connections = MapSet(@, id, ref),
                          !.details = (ref :> details) @@ @]
        Looped(loop) ==
            IF loop.threw
            THEN [ch |-> loop.ch, threw |-> TRUE]
            ELSE Notify(loop.ch, ref, loop.welcomeMessage)
    IN Looped(AddLoop(ch1, 1, id, <<"I">> \o id))

\* receiveStart
ReceiveStart(ch, ref) ==
    [ch EXCEPT !.details[ref].headerBuffer = BufferClear(@),
               !.details[ref].headerLength = 0]

\* targetComparator(a, b) at time `time`
TargetComparator(a, b, time) ==
    LET tm == time - ESTABLISHED_MS
        aEstablished == a.joined < tm
        bEstablished == b.joined < tm
        aAvailable == Len(a.queue.queue) = 0
        bAvailable == Len(b.queue.queue) = 0
        aSending == a.headerLength > 0
        bSending == a.headerLength > 0
    IN IF aEstablished # bEstablished THEN (IF aEstablished THEN -1 ELSE 1)
       ELSE IF aAvailable # bAvailable THEN (IF aAvailable THEN -1 ELSE 1)
       ELSE IF aSending # bSending THEN (IF aSending THEN 1 ELSE -1)
       ELSE 0

\* _pickOneTarget(exclude): the ids it can return; the shuffle makes every
\* available peer that the comparator puts behind no other a possible first
\* element, and <<>> stands for null (nobody available)
PickOneTarget(ch, exclude, time) ==
    LET available == {e.ref : e \in {ch.connections[i] : i \in 1..Len(ch.connections)}}
                        \ {ref \in DOMAIN ch.details : SetHas(exclude, ch.details[ref].id)}
        first == {a \in available : \A b \in available :
                    TargetComparator(ch.details[a], ch.details[b], time) <= 0}
    IN IF available = {} THEN {<<>>} ELSE {ch.details[a].id : a \in first}

\* currentTargets.add(target) for every target of one T item
RECURSIVE AddAll(_, _)
AddAll(set, items) ==
    IF items = <<>> THEN set
    ELSE AddAll(SetAdd(set, Head(items)), Tail(items))

\* the targets of the first item of a header line alone
ListedTargetsOfFirst(headers, targets) ==
    IF Head(headers) # <<>> /\ Head(headers)[1] = "T"
    THEN AddAll(targets, Split(Slice(Head(headers), 1), ","))
    ELSE targets

\* the targets the T items of a header line list, in order
RECURSIVE ListedTargets(_, _)
ListedTargets(headers, targets) ==
    IF headers = <<>> THEN targets
    ELSE LET header == Head(headers)
         IN ListedTargets(Tail(headers),
                IF header # <<>> /\ header[1] = "T"
                THEN AddAll(targets, Split(Slice(header, 1), ","))
                ELSE targets)

\* the ids of the connections map, in order, the id `except` included
KeysWithSelf(connections, except) == [i \in 1..Len(connections) |-> connections[i].id]

\* the ids of the connections map, in order, without the id `except`
RECURSIVE KeysExcept(_, _)
KeysExcept(connections, except) ==
    IF connections = <<>> THEN <<>>
    ELSE (IF Head(connections).id = except THEN <<>> ELSE <<Head(connections).id>>)
            \o KeysExcept(Tail(connections), except)

\* the ids of the connections map, in order
Keys(connections) == [i \in 1..Len(connections) |-> connections[i].id]

\* _parseHeader asks _pickOneTarget for a target on this data
NeedsPick(data) ==
    LET p == IndexOf(data, "\n")
        listed == ListedTargets(Split(SubSeq(data, 1, p), ":"), <<>>)
    IN p # -1 /\ listed # <<>> /\ ~SetHas(listed, <<"*", "*">>) /\ SetHas(listed, <<"*">>)

\* the listed ids without '*', the sender's id not added
PickExcludeListed(details, data) ==
    LET p == IndexOf(data, "\n")
        listed == ListedTargets(Split(SubSeq(data, 1, p), ":"), <<>>)
    IN SetDelete(listed, <<"*">>)

\* the set _pickOneTarget is given by _parseHeader: the listed ids without
\* '*' and with the sender's id
PickExclude(details, data) ==
    LET p == IndexOf(data, "\n")
        listed == ListedTargets(Split(SubSeq(data, 1, p), ":"), <<>>)
    IN SetAdd(SetDelete(listed, <<"*">>), details.id)

\* _parseHeader(details, data): [ch, result]; pick is what _pickOneTarget
\* returns when it is called
ParseHeader(ch, ref, data, pick) ==
    LET details == ch.details[ref]
        p == IndexOf(data, "\n")
        listed == ListedTargets(Split(SubSeq(data, 1, p), ":"), <<>>)
        hadSelf == SetHas(listed, details.id)
        withPick == IF pick # <<>>
                    THEN SetAdd(SetAdd(SetDelete(listed, <<"*">>), details.id), pick)
                    ELSE SetAdd(SetDelete(listed, <<"*">>), details.id)
        currentTargets ==
            IF listed = <<>> THEN KeysExcept(ch.connections, details.id)
            ELSE IF SetHas(listed, <<"*", "*">>) THEN Keys(ch.connections)
            ELSE IF SetHas(listed, <<"*">>)
                 THEN (IF hadSelf THEN withPick ELSE SetDelete(withPick, details.id))
            ELSE listed
    IN IF p = -1
       THEN [ch |-> ch, result |-> FALSE]
       ELSE [ch |-> [ch EXCEPT !.details[ref].currentTargets = currentTargets,
                               !.details[ref].headerLength = p + 1],
             result |-> TRUE]

\* _sendToTargets(sender, targetIDs, frame), from target i on: [ch, threw]
RECURSIVE SendToTargets(_, _, _, _, _)
SendToTargets(ch, sender, targetIDs, i, frame) ==
    IF i > Len(targetIDs)
    THEN [ch |-> ch, threw |-> FALSE]
    ELSE LET Delivered(r) ==
                 IF r.threw THEN r
                 ELSE SendToTargets(r.ch, sender, targetIDs, i + 1, frame)
         IN IF MapHas(ch.connections, targetIDs[i])
            THEN Delivered(Deliver(ch, MapGet(ch.connections, targetIDs[i]), sender, frame))
            ELSE SendToTargets(ch, sender, targetIDs, i + 1, frame)

\* the second half of receivePart: the body chunk goes to the targets
ReceiveBody(ch, ref, data, opcode, fin, tag) ==
    LET details == ch.details[ref]
        Sent(r) ==
            IF r.threw THEN [ch |-> r.ch, threw |-> "TypeError"]
            ELSE [ch |-> IF fin THEN [r.ch EXCEPT !.details[ref].headerLength = 0]
                         ELSE r.ch,
                  threw |-> "no"]
    IN IF Len(data) > 0 \/ fin
       THEN Sent(SendToTargets(ch, details.connection, details.currentTargets, 1,
                    [data |-> data, opcode |-> opcode, continuation |-> TRUE,
                     fin |-> fin, tag |-> tag]))
       ELSE [ch |-> ch, threw |-> "no"]

\* receivePart(details, {data, opcode, fin}): [ch, threw], threw being "no",
\* "HttpError" (header too large) or "TypeError"
ReceivePart(ch, ref, data, opcode, fin, pick, tag) ==
    LET details == ch.details[ref]
        headerBuffer == details.headerBuffer
        existingBufferData == BufferSize(headerBuffer)
        Sent(r) ==
            IF r.threw THEN [ch |-> r.ch, threw |-> "TypeError"]
            ELSE ReceiveBody(r.ch, ref,
                    Slice(data, r.ch.details[ref].headerLength - existingBufferData),
                    opcode, fin, tag)
        Buffered(ch1, headerParsed) ==
            IF ~headerParsed
            THEN IF BufferSize(ch1.details[ref].headerBuffer) >= ch1.details[ref].headerBuffer.cap
                 THEN [ch |-> ch1, threw |-> "HttpError"]
                 ELSE [ch |-> ch1, threw |-> "no"]
            ELSE Sent(SendToTargets(ch1, ch1.details[ref].connection,
                        ch1.details[ref].currentTargets, 1,
                        [data |-> <<"F">> \o ch1.details[ref].id \o <<"\n">>,
                         opcode |-> opcode, continuation |-> FALSE, fin |-> FALSE,
                         tag |-> <<tag[1], 0, 0>>]))
        Parsed(parsed) ==
            Buffered([parsed.ch EXCEPT !.details[ref].headerBuffer =
                         AfterTest(headerBuffer, data, parsed.result)],
                     parsed.result)
    IN IF details.headerLength = 0
       THEN Parsed(ParseHeader(ch, ref, TestData(headerBuffer, data), pick))
       ELSE ReceiveBody(ch, ref, data, opcode, fin, tag)

\* the loop of remove over the connections, from entry i on: closeSender on
\* every queue, 'B<id>' to every other peer
RECURSIVE RemoveLoop(_, _, _)
RemoveLoop(ch, i, ref) ==
    IF i > Len(ch.connections)
    THEN [ch |-> ch, threw |-> FALSE]
    ELSE LET entry == ch.connections[i]
             leaving == ch.details[ref]
             Notified(r) == IF r.threw THEN r ELSE RemoveLoop(r.ch, i + 1, ref)
             Closed(ch1) ==
                 IF entry.id # leaving.id
                 THEN Notified(Notify(ch1, entry.ref, <<"B">> \o leaving.id))
                 ELSE RemoveLoop(ch1, i + 1, ref)
         IN Closed([ch EXCEPT !.details[entry.ref].queue =
                        CloseSender(@, leaving.connection)])

\* Chamber.remove(details): [ch, threw]
ChamberRemove(ch, ref) ==
    LET Looped(loop) ==
            IF loop.threw
            THEN loop
            ELSE [ch |-> [loop.ch EXCEPT !.connections = MapDelete(@, ch.details[ref].id)],
                  threw |-> FALSE]
    IN Looped(RemoveLoop(ch, 1, ref))

-----------------------------------------------------------------------------
\* EchoChamberHalls: the directory of chambers by URL

\* str.startsWith(prefix)
StartsWith(str, prefix) ==
    Len(str) >= Len(prefix) /\ SubSeq(str, 1, Len(prefix)) = prefix

\* list.includes(x)
Includes(list, x) == \E i \in 1..Len(list) : list[i] = x

\* headers.get('Origin') || '': a request without the header has origin ''
OriginOf(headers) == IF "Origin" \in DOMAIN headers THEN headers["Origin"] ELSE ""

\* new EchoChamberHalls(baseURL, permittedOrigins, limits)
NewHalls(baseURL, permittedOrigins, limits) ==
    [baseURL |-> baseURL, permittedOrigins |-> permittedOrigins, limits |-> limits,
     chambers |-> <<>>]

\* what test returns for a request it does not take (status 0), or the
\* status of the HttpError it throws
NoChoice(status) == [protocol |-> "none", status |-> status, acceptor |-> <<>>]

\* test, were the origin of a request never looked at
TestAnyOrigin(h, url, headers, protocols) ==
    IF ~Includes(protocols, "echo") \/ ~StartsWith(url, h.baseURL)
    THEN NoChoice(0)
    ELSE [protocol |-> "echo", status |-> 0, acceptor |-> url]

\* test(url, headers, protocols): null, an HttpError 403, or the protocol
\* with accept bound to the url
Test(h, url, headers, protocols) ==
    IF ~Includes(protocols, "echo")
    THEN NoChoice(0)
    ELSE IF ~StartsWith(url, h.baseURL)
    THEN NoChoice(0)
    ELSE IF Len(h.permittedOrigins) > 0
            /\ ~Includes(h.permittedOrigins, OriginOf(headers))
    THEN NoChoice(403)
    ELSE [protocol |-> "echo", status |-> 0, acceptor |-> url]

\* chambers.get(url) finds a chamber
HasChamber(h, url) == \E i \in 1..Len(h.chambers) : h.chambers[i].url = url

\* the place of the chamber of url in the map
ChamberIndex(h, url) == CHOOSE i \in 1..Len(h.chambers) : h.chambers[i].url = url

\* chambers.get(url)
ChamberOf(h, url) == h.chambers[ChamberIndex(h, url)].chamber

\* the directory with ch as the state of the chamber of url
WithChamber(h, url, ch) ==
    [h EXCEPT !.chambers[ChamberIndex(h, url)].chamber = ch]

\* chambers.delete(url)
ChambersDelete(chambers, url) == SelectSeq(chambers, LAMBDA e : e.url # url)

\* accept, were the number of chambers never looked at
AcceptUnbounded(h, url, ref, time) ==
    LET Added(h1) ==
            LET Done(r) == [halls |-> WithChamber(h1, url, r.ch),
                            threw |-> IF r.threw THEN "TypeError" ELSE "no"]
            IN Done(ChamberAdd(ChamberOf(h1, url), ref, time))
    IN IF HasChamber(h, url)
       THEN Added(h)
       ELSE Added([h EXCEPT !.chambers =
                      Append(@, [url |-> url, chamber |-> NewChamber(h.limits)])])

\* accept(url, connection): [halls, threw]; the chamber of url is created
\* when absent, unless MAX_CHAMBERS exist, and the connection is added to it
Accept(h, url, ref, time) ==
    LET Added(h1) ==
            LET Done(r) == [halls |-> WithChamber(h1, url, r.ch),
                            threw |-> IF r.threw THEN "TypeError" ELSE "no"]
            IN Done(ChamberAdd(ChamberOf(h1, url), ref, time))
    IN IF HasChamber(h, url)
       THEN Added(h)
       ELSE IF Len(h.chambers) >= h.limits.MAX_CHAMBERS
       THEN [halls |-> h, threw |-> "TooManyChambers"]
       ELSE Added([h EXCEPT !.chambers =
                      Append(@, [url |-> url, chamber |-> NewChamber(h.limits)])])

\* the chamber of url, were its close event not listened to
KeepChamber(h, url, r) ==
    [halls |-> WithChamber(h, url, r.ch), threw |-> r.threw]

\* the chamber of url after remove returned r: remove emits close once no
\* connection is left, and the listener of accept deletes the chamber
CloseChamber(h, url, r) ==
    IF ~r.threw /\ Len(r.ch.connections) = 0
    THEN [halls |-> [h EXCEPT !.chambers = ChambersDelete(@, url)], threw |-> FALSE]
    ELSE [halls |-> WithChamber(h, url, r.ch), threw |-> r.threw]

-----------------------------------------------------------------------------
\* Spec: one chamber, its peers joining, sending messages and leaving

\* the connections that may join, in this order
Conns == {1, 2, 3}

\* the inbound messages explored, each as the data of its message-part events
Messages ==
    << << <<"\n", "h">>, <<"i">> >>,
       << <<"T", "*", "*", "\n">>, <<"h">> >>,
       << <<"T", "*", "\n", "h">> >>,
       << <<"T", "0", ",", "*", "\n", "h">> >>,
       << <<"T">>, <<"1", "\n", "h">> >>,
       << <<"x", ":", "T">>, <<"1", "\n", "h">> >>,
       << <<"\n", "h", "i">> >>,
       << <<"T", "\n", "h">> >>,
       << <<"T", "*", "*", ",", "1", "\n", "h">> >>,
       << <<"T", "1", "\n", "h">> >>,
       << <<"T", "0", ",", "2", "\n", "h">> >>,
       << <<"T", "7", "\n", "h">> >>,
       << <<"a", ":", "T", "1", ":", "T", "2", "\n", "h">> >>,
       << <<"T", "*", ",", "1", "\n", "h">> >>,
       << <<"T">>, <<"1">>, <<"\n">>, <<"h">>, <<>> >> >>

\* the messages sent in Spec: those that leave a message open between parts,
\* pick a target, or overflow the header buffer
RelayMessages == 1..6

\* the messages sent in SpecM: every form of target list, and the ways a
\* message is split into parts
ParsedMessages == (1..15) \ {6}

\* the limits a chamber is configured with
ChamberLimitChoices ==
    { [MAX_QUEUE_ITEMS |-> 0, MAX_QUEUE_DATA |-> 0, HEADERS_MAX_LENGTH |-> 4],
      [MAX_QUEUE_ITEMS |-> 1, MAX_QUEUE_DATA |-> 1, HEADERS_MAX_LENGTH |-> 4] }

\* the chamber-side variables when no chamber runs (SpecQ)
ChamberIdle ==
    /\ chamber = NewChamber([MAX_QUEUE_ITEMS |-> 0, MAX_QUEUE_DATA |-> 0,
                             HEADERS_MAX_LENGTH |-> 0])
    /\ sock = <<>>
    /\ inbound = <<>>
    /\ now = 0
    /\ ops = 0
    /\ crashed = FALSE
    /\ lastOp = [op |-> "init", ref |-> Null, threw |-> "no"]
    /\ events = <<>>

\* no upgrade request yet: no connection has the URL of a chamber, or has
\* been written to outside one
NoRequest ==
    [room |-> [c \in Conns |-> <<>>],
     outside |-> [c \in Conns |-> NewConnection]]

\* the variables of the connection layer when it is not driven
WireIdle ==
    /\ codec = <<>>
    /\ wsc = <<>>
    /\ server = <<>>

\* the directory-side variables when no directory runs (Spec, SpecM, SpecQ)
DirectoryIdle ==
    /\ halls = NewHalls(<<>>, <<>>, [MAX_CHAMBERS |-> 0])
    /\ request = NoRequest

\* the queue-side variables when no single queue is driven (Spec)
QueueIdle ==
    /\ oq = NewOutputQueue(NewConnection, [MAX_QUEUE_ITEMS |-> 0, MAX_QUEUE_DATA |-> 0,
                                           HEADERS_MAX_LENGTH |-> 0])
    /\ pos = <<>>
    /\ calls = 0
    /\ lastCall = [op |-> "new", sender |-> Null, threw |-> FALSE, aborts |-> 0,
                   active |-> Null, tag |-> <<0, 0, 0>>]
    /\ overflowed = {}

Init ==
    /\ QueueIdle
    /\ DirectoryIdle
    /\ WireIdle
    /\ \E limits \in ChamberLimitChoices : chamber = NewChamber(limits)
    /\ sock = [c \in Conns |-> "none"]
    /\ inbound = [c \in Conns |-> [msg |-> 0, parts |-> <<>>]]
    /\ now = 0
    /\ ops = 0
    /\ crashed = FALSE
    /\ lastOp = [op |-> "init", ref |-> Null, threw |-> "no"]
    /\ events = <<>>

\* error(e) on the connection of peer ref: the close frame goes to its socket
Fail(ch, ref, err) ==
    [ch EXCEPT !.details[ref].queue.connection = Error(@, err)]

\* the acceptor of an upgraded connection adds it to the chamber; an
\* exception of add is caught by the handshake handler, which calls error
Join(c) ==
    /\ ~crashed
    /\ sock[c] = "none"
    /\ ops < MaxOps
    /\ \A d \in Conns : d < c => sock[d] # "none"
    /\ \E r \in {ChamberAdd(chamber, c, now)} :
          /\ chamber' = IF r.threw THEN Fail(r.ch, c, "TypeError") ELSE r.ch
          /\ sock' = [sock EXCEPT ![c] = IF r.threw THEN "destroyed" ELSE "open"]
          /\ lastOp' = [op |-> "add", ref |-> c,
                        threw |-> IF r.threw THEN "TypeError" ELSE "no"]
    /\ ops' = ops + 1
    /\ events' = Append(events, [op |-> "add", ref |-> c])
    /\ UNCHANGED <<inbound, now, crashed, qvars, dvars, wvars>>

\* a data frame that begins a message arrives: message-start
MessageStart(c, m) ==
    /\ ~crashed
    /\ sock[c] = "open"
    /\ inbound[c].parts = <<>>
    /\ ops < MaxOps
    /\ chamber' = ReceiveStart(chamber, c)
    /\ inbound' = [inbound EXCEPT ![c] = [msg |-> m, parts |-> Messages[m]]]
    /\ ops' = ops + 1
    /\ lastOp' = [op |-> "receiveStart", ref |-> c, threw |-> "no"]
    /\ UNCHANGED <<sock, now, crashed, events, qvars, dvars, wvars>>

\* the next message-part event of connection c; an exception of receivePart
\* is caught by the data handler, which calls error and destroys the socket
MessagePart(c, pick) ==
    /\ ~crashed
    /\ sock[c] = "open"
    /\ inbound[c].parts # <<>>
    /\ LET data == Head(inbound[c].parts)
           fin == Len(inbound[c].parts) = 1
           details == chamber.details[c]
           tested == TestData(details.headerBuffer, data)
       IN /\ pick \in IF details.headerLength = 0 /\ NeedsPick(tested)
                      THEN PickOneTarget(chamber, PickExclude(details, tested), now)
                      ELSE {<<>>}
          /\ \E r \in {ReceivePart(chamber, c, data, OpcodeOf(c), fin, pick,
                    <<inbound[c].msg, Len(Messages[inbound[c].msg]) - Len(inbound[c].parts) + 1, 0>>)} :
             /\ chamber' = IF r.threw # "no" THEN Fail(r.ch, c, r.threw) ELSE r.ch
             /\ sock' = [sock EXCEPT ![c] = IF r.threw # "no" THEN "destroyed" ELSE @]
             /\ inbound' = [inbound EXCEPT ![c].parts =
                               IF r.threw # "no" THEN <<>> ELSE Tail(@)]
             /\ lastOp' = [op |-> "receivePart", ref |-> c, threw |-> r.threw]
    /\ UNCHANGED <<now, ops, crashed, events, qvars, dvars, wvars>>

\* the socket of connection c closes (the peer went away, or the socket was
\* destroyed after an error): the connection emits close and the chamber
\* removes the peer; an exception of remove escapes the event handler
SocketClose(c) ==
    /\ ~crashed
    /\ sock[c] \in {"open", "destroyed"}
    /\ \E r \in {ChamberRemove(
                [chamber EXCEPT !.details[c].queue.connection.closed = TRUE], c)} :
          /\ chamber' = r.ch
          /\ crashed' = r.threw
          /\ lastOp' = [op |-> "remove", ref |-> c,
                        threw |-> IF r.threw THEN "TypeError" ELSE "no"]
    /\ sock' = [sock EXCEPT ![c] = "closed"]
    /\ inbound' = [inbound EXCEPT ![c].parts = <<>>]
    /\ events' = Append(events, [op |-> "remove", ref |-> c])
    /\ UNCHANGED <<now, ops, qvars, dvars, wvars>>

\* more than 30 seconds pass
Tick ==
    /\ ~crashed
    /\ ops < MaxOps
    /\ ops' = ops + 1
    /\ now' = now + ESTABLISHED_MS + 1
    /\ lastOp' = [op |-> "tick", ref |-> Null, threw |-> "no"]
    /\ UNCHANGED <<chamber, sock, inbound, crashed, events, qvars, dvars, wvars>>

Next ==
    \/ \E c \in Conns : Join(c)
    \/ \E c \in Conns, m \in RelayMessages : MessageStart(c, m)
    \/ \E c \in Conns, pick \in {<<>>} \cup {IdString(c - 1) : c \in Conns} :
            MessagePart(c, pick)
    \/ \E c \in Conns : SocketClose(c)
    \/ Tick

Spec == Init /\ [][Next]_vars

-----------------------------------------------------------------------------
\* SpecM: one chamber in which every peer sends at most one message, drawn
\* from all the forms of header and all the splits into parts

\* the first message of connection c begins
MessageOnce(c, m) ==
    /\ inbound[c].msg = 0
    /\ MessageStart(c, m)

NextM ==
    \/ \E c \in Conns : Join(c)
    \/ \E c \in Conns, m \in ParsedMessages : MessageOnce(c, m)
    \/ \E c \in Conns, pick \in {<<>>} \cup {IdString(c - 1) : c \in Conns} :
            MessagePart(c, pick)
    \/ \E c \in Conns : SocketClose(c)

SpecM == Init /\ [][NextM]_vars

-----------------------------------------------------------------------------
\* SpecD: a directory of chambers, connections upgrading into it, sending
\* messages and leaving

\* the URLs requested: two below the base URL, one elsewhere
DirURLs == { <<"/", "a", "/", "x">>, <<"/", "a", "/", "y">>, <<"/", "b">> }

\* the headers requested: no Origin, an empty one, a permitted and another one
DirHeaders ==
    { [Host |-> "h"],
      [Host |-> "h", Origin |-> ""],
      [Host |-> "h", Origin |-> "https://a"],
      [Host |-> "h", Origin |-> "https://b"] }

\* the protocol lists requested
DirProtocols == { <<"chat">>, <<"echo">>, <<"chat", "echo">> }

\* the messages sent in SpecD: one to everyone else and one to everyone, both
\* open between their parts
DirMessages == {1, 2}

\* the directories explored: origins as the command line splits them, and limits
HallsChoices ==
    { NewHalls(<<"/", "a", "/">>, <<>>,
               [MAX_QUEUE_ITEMS |-> 1, MAX_QUEUE_DATA |-> 1, HEADERS_MAX_LENGTH |-> 4,
                MAX_CHAMBERS |-> 1]),
      NewHalls(<<"/", "a", "/">>, <<"https://a">>,
               [MAX_QUEUE_ITEMS |-> 1, MAX_QUEUE_DATA |-> 1, HEADERS_MAX_LENGTH |-> 4,
                MAX_CHAMBERS |-> 2]),
      NewHalls(<<"/", "a", "/">>, <<"https://a", "">>,
               [MAX_QUEUE_ITEMS |-> 0, MAX_QUEUE_DATA |-> 0, HEADERS_MAX_LENGTH |-> 4,
                MAX_CHAMBERS |-> 1]) }

InitD ==
    /\ QueueIdle
    /\ chamber = NewChamber([MAX_QUEUE_ITEMS |-> 0, MAX_QUEUE_DATA |-> 0,
                             HEADERS_MAX_LENGTH |-> 0])
    /\ halls \in HallsChoices
    /\ WireIdle
    /\ request = NoRequest
    /\ sock = [c \in Conns |-> "none"]
    /\ inbound = [c \in Conns |-> [msg |-> 0, parts |-> <<>>]]
    /\ now = 0
    /\ ops = 0
    /\ crashed = FALSE
    /\ lastOp = [op |-> "init", ref |-> Null, threw |-> "no"]
    /\ events = <<>>

\* the chamber connection c was added to
RoomOf(c) == ChamberOf(halls, request.room[c])

\* the upgrade request of connection c is complete: the handlers are tested;
\* without a choice (404) or with an error of test the request is answered
\* over HTTP and the socket destroyed; else the connection is upgraded and the
\* acceptor called, whose exception is caught by the handshake handler, which
\* calls error
Handshake(c, url, headers, protocols) ==
    /\ ~crashed
    /\ sock[c] = "none"
    /\ ops < MaxOps
    /\ \A d \in Conns : d < c => sock[d] # "none"
    /\ \E choice \in {Test(halls, url, headers, protocols)} :
          /\ IF choice.protocol = "none"
             THEN /\ halls' = halls
                  /\ sock' = [sock EXCEPT ![c] = "refused"]
                  /\ lastOp' = [op |-> "test", ref |-> c, threw |-> "HttpError",
                                url |-> url, headers |-> headers,
                                protocols |-> protocols, choice |-> choice]
                  /\ events' = events
             ELSE \E r \in {Accept(halls, choice.acceptor, c, now)} :
                  /\ halls' = IF r.threw = "TypeError"
                              THEN WithChamber(r.halls, choice.acceptor,
                                      Fail(ChamberOf(r.halls, choice.acceptor),
                                           c, "TypeError"))
                              ELSE r.halls
                  /\ sock' = [sock EXCEPT ![c] =
                                IF r.threw = "TypeError" THEN "destroyed"
                                ELSE IF r.threw = "no" THEN "open"
                                ELSE "refused"]
                  /\ lastOp' = [op |-> "accept", ref |-> c, threw |-> r.threw,
                                url |-> url, headers |-> headers,
                                protocols |-> protocols, choice |-> choice]
                  /\ events' = IF r.threw = "TooManyChambers" THEN events
                               ELSE Append(events, [op |-> "add", ref |-> c])
          /\ request' = [request EXCEPT
                !.room[c] = choice.acceptor,
                !.outside[c] = IF lastOp'.threw = "TooManyChambers"
                               THEN Error(@, "TooManyChambers")
                               ELSE @]
    /\ ops' = ops + 1
    /\ UNCHANGED <<chamber, inbound, now, crashed, qvars, wvars>>

\* message-start on a connection of the directory
DirMessageStart(c, m) ==
    /\ ~crashed
    /\ sock[c] = "open"
    /\ inbound[c].parts = <<>>
    /\ ops < MaxOps
    /\ halls' = WithChamber(halls, request.room[c], ReceiveStart(RoomOf(c), c))
    /\ inbound' = [inbound EXCEPT ![c] = [msg |-> m, parts |-> Messages[m]]]
    /\ ops' = ops + 1
    /\ lastOp' = [op |-> "receiveStart", ref |-> c, threw |-> "no"]
    /\ UNCHANGED <<chamber, request, sock, now, crashed, events, qvars, wvars>>

\* message-part on a connection of the directory
DirMessagePart(c, pick) ==
    /\ ~crashed
    /\ sock[c] = "open"
    /\ inbound[c].parts # <<>>
    /\ LET data == Head(inbound[c].parts)
           fin == Len(inbound[c].parts) = 1
           details == RoomOf(c).details[c]
           tested == TestData(details.headerBuffer, data)
       IN /\ pick \in IF details.headerLength = 0 /\ NeedsPick(tested)
                      THEN PickOneTarget(RoomOf(c), PickExclude(details, tested), now)
                      ELSE {<<>>}
          /\ \E r \in {ReceivePart(RoomOf(c), c, data, OpcodeOf(c), fin, pick,
                    <<inbound[c].msg, Len(Messages[inbound[c].msg]) - Len(inbound[c].parts) + 1, 0>>)} :
             /\ halls' = WithChamber(halls, request.room[c],
                            IF r.threw # "no" THEN Fail(r.ch, c, r.threw) ELSE r.ch)
             /\ sock' = [sock EXCEPT ![c] = IF r.threw # "no" THEN "destroyed" ELSE @]
             /\ inbound' = [inbound EXCEPT ![c].parts =
                               IF r.threw # "no" THEN <<>> ELSE Tail(@)]
             /\ lastOp' = [op |-> "receivePart", ref |-> c, threw |-> r.threw]
    /\ UNCHANGED <<chamber, request, now, ops, crashed, events, qvars, wvars>>

\* the socket of a connection of the directory closes: its chamber removes
\* the peer and, once empty, emits close, on which the directory deletes it
DirSocketClose(c) ==
    /\ ~crashed
    /\ sock[c] \in {"open", "destroyed"}
    /\ \E r \in {CloseChamber(halls, request.room[c],
                    ChamberRemove([RoomOf(c) EXCEPT
                        !.details[c].queue.connection.closed = TRUE], c))} :
          /\ halls' = r.halls
          /\ crashed' = r.threw
          /\ lastOp' = [op |-> "remove", ref |-> c,
                        threw |-> IF r.threw THEN "TypeError" ELSE "no"]
    /\ sock' = [sock EXCEPT ![c] = "closed"]
    /\ inbound' = [inbound EXCEPT ![c].parts = <<>>]
    /\ events' = Append(events, [op |-> "remove", ref |-> c])
    /\ UNCHANGED <<chamber, request, now, ops, qvars, wvars>>

NextD ==
    \/ \E c \in Conns, url \in DirURLs, headers \in DirHeaders,
          protocols \in DirProtocols : Handshake(c, url, headers, protocols)
    \/ \E c \in Conns, m \in DirMessages : DirMessageStart(c, m)
    \/ \E c \in Conns : DirMessagePart(c, <<>>)
    \/ \E c \in Conns : DirSocketClose(c)

SpecD == InitD /\ [][NextD]_vars

-----------------------------------------------------------------------------
\* SpecL: one chamber with a limit of connections

\* Chamber.add, were the number of connections never looked at
ChamberAddUnlimited(ch, ref, time, counted) ==
    LET Added(r) == [ch |-> r.ch, threw |-> IF r.threw THEN "TypeError" ELSE "no"]
    IN Added(ChamberAdd(ch, ref, time))

\* Chamber.add of a chamber with CHAMBER_MAX_CONNECTIONS: a joiner beyond the
\* limit is rejected with HttpError(1013, 'Chamber is full') before it is
\* made a peer; counted tells whether the id counter has advanced by then
ChamberAddLimited(ch, ref, time, counted) ==
    LET Added(r) == [ch |-> r.ch, threw |-> IF r.threw THEN "TypeError" ELSE "no"]
    IN IF Len(ch.connections) >= ch.limits.CHAMBER_MAX_CONNECTIONS
       THEN [ch |-> [ch EXCEPT !.idCounter = IF counted THEN @ + 1 ELSE @],
             threw |-> "ChamberFull"]
       ELSE Added(ChamberAdd(ch, ref, time))

\* the limits of the two-peer family of chambers, and of a chamber for one
\* peer that queues
LimitedChoices ==
    { [MAX_QUEUE_ITEMS |-> 0, MAX_QUEUE_DATA |-> 0, HEADERS_MAX_LENGTH |-> 4,
       CHAMBER_MAX_CONNECTIONS |-> 2],
      [MAX_QUEUE_ITEMS |-> 1, MAX_QUEUE_DATA |-> 1, HEADERS_MAX_LENGTH |-> 4,
       CHAMBER_MAX_CONNECTIONS |-> 1] }

\* the messages sent in SpecL: to everyone else and to everyone, both open
\* between their parts, and to the sender's own id and one more peer
LimitedMessages == {1, 2, 4}

InitL ==
    /\ QueueIdle
    /\ DirectoryIdle
    /\ WireIdle
    /\ \E limits \in LimitedChoices : chamber = NewChamber(limits)
    /\ sock = [c \in Conns |-> "none"]
    /\ inbound = [c \in Conns |-> [msg |-> 0, parts |-> <<>>]]
    /\ now = 0
    /\ ops = 0
    /\ crashed = FALSE
    /\ lastOp = [op |-> "init", ref |-> Null, threw |-> "no"]
    /\ events = <<>>

\* the acceptor adds an upgraded connection to the chamber; an exception of
\* add is caught by the handshake handler, which calls error: a rejected
\* joiner is no peer, and is written the close frame outside the chamber
JoinLimited(c, counted) ==
    /\ ~crashed
    /\ sock[c] = "none"
    /\ ops < MaxOps
    /\ \A d \in Conns : d < c => sock[d] # "none"
    /\ \E r \in {ChamberAddLimited(chamber, c, now, counted)} :
          /\ chamber' = IF r.threw = "TypeError" THEN Fail(r.ch, c, "TypeError")
                        ELSE r.ch
          /\ sock' = [sock EXCEPT ![c] =
                        IF r.threw = "TypeError" THEN "destroyed"
                        ELSE IF r.threw = "no" THEN "open"
                        ELSE "refused"]
          /\ request' = [request EXCEPT !.outside[c] =
                            IF r.threw = "ChamberFull"
                            THEN Error(@, "ChamberFull") ELSE @]
          /\ lastOp' = [op |-> "add", ref |-> c, threw |-> r.threw]
          /\ events' = IF r.threw = "ChamberFull" THEN events
                       ELSE Append(events, [op |-> "add", ref |-> c])
    /\ ops' = ops + 1
    /\ UNCHANGED <<inbound, now, crashed, halls, qvars, wvars>>

NextL ==
    \/ \E c \in Conns, counted \in BOOLEAN : JoinLimited(c, counted)
    \/ \E c \in Conns, m \in LimitedMessages : MessageStart(c, m)
    \/ \E c \in Conns, pick \in {<<>>} \cup {IdString(c - 1) : c \in Conns} :
            MessagePart(c, pick)
    \/ \E c \in Conns : SocketClose(c)

SpecL == InitL /\ [][NextL]_vars

-----------------------------------------------------------------------------
\* SpecQ: one OutputQueue driven through its interface by several senders,
\* each in its own frame order

\* a sender's position: next message number, next frame index, message open?
NewPos == [msg |-> 1, idx |-> 1, state |-> "idle"]

InitQ ==
    /\ \E limits \in LimitChoices : oq = NewOutputQueue(NewConnection, limits)
    /\ pos = [s \in QConns \cup {ChamberSender} |-> NewPos]
    /\ calls = 0
    /\ lastCall = [op |-> "new", sender |-> Null, threw |-> FALSE, aborts |-> 0,
                   active |-> Null, tag |-> <<0, 0, 0>>]
    /\ overflowed = {}
    /\ ChamberIdle
    /\ DirectoryIdle
    /\ WireIdle

\* a connection hands its next frame to addFrame: the first frame of a message
\* when none is open, else a continuation. A sender whose call threw is closed
\* by its connection's error handler and hands over nothing more.
QAddFrame(s, fin) ==
    /\ calls < MaxCalls
    /\ pos[s].state \in {"idle", "open"}
    /\ LET p == pos[s]
           tag == <<p.msg, p.idx, calls + 1>>
           info == [data |-> Payload, opcode |-> OpcodeOf(s),
                    continuation |-> (p.state = "open"), fin |-> fin, tag |-> tag]
           r == AddFrame(oq, s, info)
       IN /\ oq' = r.q
          /\ pos' = [pos EXCEPT ![s] =
                IF r.threw THEN [p EXCEPT !.state = "failed"]
                ELSE IF fin THEN [msg |-> p.msg + 1, idx |-> 1, state |-> "idle"]
                ELSE [p EXCEPT !.idx = @ + 1, !.state = "open"]]
          /\ lastCall' = [op |-> "addFrame", sender |-> s, threw |-> r.threw,
                          aborts |-> r.aborts, active |-> oq.activeSender, tag |-> tag]
          /\ overflowed' = IF r.aborts > 0 THEN overflowed \cup {<<s, p.msg>>}
                           ELSE overflowed
    /\ calls' = calls + 1
    /\ UNCHANGED <<cvars, dvars, wvars>>

\* the chamber hands a notification to add
QAdd ==
    /\ calls < MaxCalls
    /\ LET p == pos[ChamberSender]
           tag == <<p.msg, 1, calls + 1>>
           r == Add(oq, ChamberSender, <<"H">>, tag)
       IN /\ oq' = r.q
          /\ pos' = [pos EXCEPT ![ChamberSender] = [p EXCEPT !.msg = @ + 1]]
          /\ lastCall' = [op |-> "add", sender |-> ChamberSender, threw |-> r.threw,
                          aborts |-> r.aborts, active |-> oq.activeSender, tag |-> tag]
    /\ calls' = calls + 1
    /\ UNCHANGED <<overflowed, cvars, dvars, wvars>>

\* a connection that has sent something leaves: the chamber calls closeSender
\* for it (for one that never sent, closeSender finds nothing to do)
QCloseSender(s) ==
    /\ pos[s].state # "gone"
    /\ pos[s] # NewPos
    /\ oq' = CloseSender(oq, s)
    /\ pos' = [pos EXCEPT ![s].state = "gone"]
    /\ lastCall' = [op |-> "closeSender", sender |-> s, threw |-> FALSE,
                    aborts |-> 0, active |-> oq.activeSender, tag |-> <<0, 0, 0>>]
    /\ UNCHANGED <<calls, overflowed, cvars, dvars, wvars>>

NextQ ==
    \/ \E s \in QConns, fin \in BOOLEAN : QAddFrame(s, fin)
    \/ QAdd
    \/ \E s \in QConns : QCloseSender(s)

SpecQ == InitQ /\ [][NextQ]_vars

-----------------------------------------------------------------------------
\* Properties of one OutputQueue (SpecQ)

\* the frames written to the receiver's connection, in order
Written == oq.connection.written

\* the zero-length continuation-fin written by abortCurrent
IsAbortMarker(f) == f.from = Null /\ f.opcode = 0 /\ f.fin /\ f.len = 0

\* the single-frame text message 'X' written by abortCurrent
IsTruncationNotice(f) == f.from = Null /\ f.opcode = 1 /\ f.fin /\ f.data = <<"X">>

\* C1: while a message of sender S is open on the receiver (a non-final frame
\* of S was written and the message has not ended), the next frame written is
\* a frame of S or the continuation-fin of abortCurrent: no frame of another
\* sender is written inside S's message.
C1_NoInterleaving ==
    \A i \in 1..(Len(Written) - 1) :
        ~Written[i].fin =>
            \/ Written[i + 1].from = Written[i].from
            \/ IsAbortMarker(Written[i + 1])

\* C1 witness: a frame another sender handed over while S's message was open
\* was kept back and written only after a later continuation of S
C1_Witness ==
    \E j, k \in 1..Len(Written) :
        /\ j < k
        /\ Written[j].from \in QConns
        /\ Written[j].opcode = 0
        /\ Written[k].from \in QConns \ {Written[j].from}
        /\ Written[k].tag[3] < Written[j].tag[3]

C3_TruncationComplete ==
    \A i \in 1..Len(Written) :
        IsAbortMarker(Written[i]) =>
            /\ i > 1 /\ Written[i - 1].from # Null /\ ~Written[i - 1].fin
            /\ i < Len(Written) /\ IsTruncationNotice(Written[i + 1])
            /\ \A j \in (i + 1)..Len(Written) :
                  Written[j].from = Written[i - 1].from =>
                    /\ Written[j].tag[1] # Written[i - 1].tag[1]
                    /\ (\A k \in (i + 1)..(j - 1) : Written[k].from # Written[j].from)
                          => Written[j].opcode # 0

\* C3 witness: the sender of an aborted message handed over a further
\* continuation of it after the abort, without error, and later began a new
\* message that was written
C3_Witness ==
    \E i, j \in 1..Len(Written) :
        /\ i < j
        /\ IsAbortMarker(Written[i])
        /\ Written[j].from = Written[i - 1].from
        /\ Written[j].tag[1] > Written[i - 1].tag[1]
        /\ Written[j].tag[2] = 1
        /\ Written[j].tag[3] > Written[i - 1].tag[3] + 2

\* the payload bytes held in the queue
QueuedBytes == QueueDataBytesOfInfo(oq.queue).size

\* C4: after addFrame returns, the queue holds at most MAX_QUEUE_ITEMS items
\* and at most MAX_QUEUE_DATA payload bytes, and the capacity test is true
\* exactly when one of the two caps is exceeded.
C4_CapsRespected ==
    /\ (lastCall.op \in {"addFrame", "add"} /\ ~lastCall.threw) =>
            /\ Len(oq.queue) <= oq.limits.MAX_QUEUE_ITEMS
            /\ QueuedBytes <= oq.limits.MAX_QUEUE_DATA
    /\ QueueBeyondCapacity(oq.queue, oq.limits) =
            [threw |-> FALSE,
             value |-> \/ Len(oq.queue) > oq.limits.MAX_QUEUE_ITEMS
                       \/ QueuedBytes > oq.limits.MAX_QUEUE_DATA]

\* message m of sender b was cut short on the receiver: the abort marker
\* follows one of its frames
Truncated(b, m) ==
    \E i \in 1..(Len(Written) - 1) :
        /\ Written[i].from = b
        /\ Written[i].tag[1] = m
        /\ IsAbortMarker(Written[i + 1])

\* C6: when a queued frame of sender B pushes the queue over a cap while A's
\* message is in flight, A's message is truncated and B's message is then
\* delivered complete: B's call does not fail and B's message is not
\* truncated while B stays connected, whatever A and B hand over next.
C6_OverflowDeliversQueuedIntact ==
    \A bm \in overflowed :
        pos[bm[1]].state # "gone" =>
            /\ pos[bm[1]].state # "failed"
            /\ ~Truncated(bm[1], bm[2])

-----------------------------------------------------------------------------
\* Properties of the chamber (Spec)

\* the peer records made so far
Peers == DOMAIN chamber.details

\* the peers in the connections map
Members == {chamber.connections[i].ref : i \in 1..Len(chamber.connections)}

\* the frames written to the socket of peer c
WrittenTo(c) == chamber.details[c].queue.connection.written

\* the addFrame calls made on the queue of peer c
HandedTo(c) == chamber.details[c].handed

\* the number of notifications with this text handed to peer c
NoticesHanded(c, text) ==
    Cardinality({i \in 1..Len(HandedTo(c)) :
        HandedTo(c)[i].sender = ChamberSender /\ HandedTo(c)[i].info.data = text})

\* the bytes of the parts of a message, joined
RECURSIVE Concat(_)
Concat(parts) == IF parts = <<>> THEN <<>> ELSE Head(parts) \o Concat(Tail(parts))

\* the header line of inbound message m: its bytes before the first newline
HeaderLine(m) ==
    LET bytes == Concat(Messages[m])
    IN SubSeq(bytes, 1, IndexOf(bytes, "\n"))

\* C5: relaying never raises an error into a peer: addFrame never throws
\* inside a chamber operation, no connection is sent a close frame with the
\* internal-error code 1011, and no exception escapes the close handler
C5_RelayNeverRaises ==
    /\ lastOp.threw # "TypeError"
    /\ ~crashed
    /\ \A c \in Peers : \A i \in 1..Len(WrittenTo(c)) :
          WrittenTo(c)[i].opcode = 8 => WrittenTo(c)[i].data[1] # "1011"

\* C7: right after add of a peer with id n, every other member has been handed
\* exactly one 'H<n>' and the new peer has been handed exactly one message,
\* 'I<n>' followed by ':H<p>' for exactly the ids p of the other members
C7_AddNotifiesEveryone ==
    lastOp.op = "add" =>
        LET c == lastOp.ref
            n == chamber.details[c].id
            others == Members \ {c}
            welcome == Split(HandedTo(c)[1].info.data, ":")
        IN /\ \A p \in others : NoticesHanded(p, <<"H">> \o n) = 1
           /\ Len(HandedTo(c)) = 1
           /\ HandedTo(c)[1].sender = ChamberSender
           /\ HandedTo(c)[1].info.opcode = 1
           /\ HandedTo(c)[1].info.fin /\ ~HandedTo(c)[1].info.continuation
           /\ welcome[1] = <<"I">> \o n
           /\ Len(welcome) = 1 + Cardinality(others)
           /\ {welcome[i] : i \in 2..Len(welcome)} =
                  {<<"H">> \o chamber.details[p].id : p \in others}

\* the position in events of the add of peer c
AddedAt(c) == CHOOSE i \in 1..Len(events) : events[i] = [op |-> "add", ref |-> c]

\* the peers whose event `op` came after the add of peer c
Since(c, op) ==
    {q \in Peers \ {c} : \E i \in 1..Len(events) :
        i > AddedAt(c) /\ events[i] = [op |-> op, ref |-> q]}

\* the number of notifications handed to peer c whose text begins with `letter`
NoticesOfKind(c, letter) ==
    Cardinality({i \in 1..Len(HandedTo(c)) :
        HandedTo(c)[i].sender = ChamberSender /\ HandedTo(c)[i].info.data[1] = letter})

\* the number of notifications written to the socket of peer c or waiting in
\* its queue
NoticesKept(c) ==
    Cardinality({i \in 1..Len(WrittenTo(c)) : WrittenTo(c)[i].from = ChamberSender})
    + Cardinality({i \in 1..Len(chamber.details[c].queue.queue) :
        chamber.details[c].queue.queue[i].sender = ChamberSender})

\* C8: a peer that is still connected has been handed exactly one 'H<id>' for
\* every peer added since it joined and exactly one 'B<id>' for every peer
\* removed since it joined, no other H or B, and every notification handed to
\* it has been written to its socket or still waits in its queue
C8_NoticesMatchJoinsAndLeaves ==
    \A c \in Peers : sock[c] = "open" =>
        /\ \A q \in Since(c, "add") : NoticesHanded(c, <<"H">> \o chamber.details[q].id) = 1
        /\ \A q \in Since(c, "remove") : NoticesHanded(c, <<"B">> \o chamber.details[q].id) = 1
        /\ NoticesOfKind(c, "H") = Cardinality(Since(c, "add"))
        /\ NoticesOfKind(c, "B") = Cardinality(Since(c, "remove"))
        /\ NoticesKept(c) = Cardinality({i \in 1..Len(HandedTo(c)) :
                                HandedTo(c)[i].sender = ChamberSender})

\* C9: the connections map holds one entry per id, each the record of that
\* id, and no two peer records ever made by the chamber have the same id
C9_IdsUniqueNeverReused ==
    /\ \A i, j \in 1..Len(chamber.connections) :
          i # j => /\ chamber.connections[i].id # chamber.connections[j].id
                   /\ chamber.connections[i].ref # chamber.connections[j].ref
    /\ \A i \in 1..Len(chamber.connections) :
          chamber.details[chamber.connections[i].ref].id = chamber.connections[i].id
    /\ \A c, d \in Peers : c # d => chamber.details[c].id # chamber.details[d].id

\* a peer has just been added after another peer had left, beside a member
C9_Witness ==
    /\ lastOp.op = "add"
    /\ \E c \in Peers : sock[c] = "closed"
    /\ Cardinality(Members) >= 2

\* C10: a frame of an inbound message of peer s is handed to the queue of s
\* only if the target list of the message names '**' or the id of s
C10_NoSelfEcho ==
    \A s \in Peers : \A i \in 1..Len(HandedTo(s)) :
        HandedTo(s)[i].sender = s =>
            LET listed == ListedTargets(Split(HeaderLine(HandedTo(s)[i].info.tag[1]), ":"), <<>>)
            IN SetHas(listed, <<"*", "*">>) \/ SetHas(listed, chamber.details[s].id)

\* a peer that named itself and '*' was handed its own message, which another
\* peer was handed too, while a peer that named nobody was handed nothing of
\* its own
C10_Witness ==
    \E s, t \in Peers :
        /\ s # t
        /\ \E i \in 1..Len(HandedTo(s)) :
              /\ HandedTo(s)[i].sender = s
              /\ SetHas(ListedTargets(Split(HeaderLine(HandedTo(s)[i].info.tag[1]), ":"), <<>>), <<"*">>)
        /\ \E i \in 1..Len(HandedTo(t)) : HandedTo(t)[i].sender = s
        /\ \E i \in 1..Len(HandedTo(s)) :
              /\ HandedTo(s)[i].sender = t
              /\ ListedTargets(Split(HeaderLine(HandedTo(s)[i].info.tag[1]), ":"), <<>>) = <<>>
        /\ \A i \in 1..Len(HandedTo(t)) :
              HandedTo(t)[i].sender = t => HandedTo(t)[i].info.tag[1] = 0

-----------------------------------------------------------------------------
\* Properties of header parsing and framing (SpecM)

\* what the T items of each message of the catalogue list, read off the
\* message text: the pieces between commas of every item that begins with T
\* (a T item with nothing after the T lists the empty id)
ListedBy ==
    << {},
       {<<"*", "*">>},
       {<<"*">>},
       {<<"0">>, <<"*">>},
       {<<"1">>},
       {<<"1">>},
       {},
       {<<>>},
       {<<"*", "*">>, <<"1">>},
       {<<"1">>},
       {<<"0">>, <<"2">>},
       {<<"7">>},
       {<<"1">>, <<"2">>},
       {<<"*">>, <<"1">>},
       {<<"1">> } >>

\* the ids of the members
MemberIds == {chamber.connections[i].id : i \in 1..Len(chamber.connections)}

\* the target set of peer c
TargetsOf(c) ==
    {chamber.details[c].currentTargets[i] : i \in 1..Len(chamber.details[c].currentTargets)}

\* the part of message m that holds its first newline
RECURSIVE HeaderPartFrom(_, _)
HeaderPartFrom(parts, i) ==
    IF IndexOf(parts[i], "\n") # -1 THEN i ELSE HeaderPartFrom(parts, i + 1)

\* receivePart has just returned for the part of peer c's message that
\* completes the header
JustParsed(c) ==
    /\ lastOp = [op |-> "receivePart", ref |-> c, threw |-> "no"]
    /\ inbound[c].msg # 0
    /\ Len(Messages[inbound[c].msg]) - Len(inbound[c].parts)
          = HeaderPartFrom(Messages[inbound[c].msg], 1)

\* a list of ids only: not empty, without '*' and without '**'
Literal(listed) == listed # {} /\ <<"*">> \notin listed /\ <<"*", "*">> \notin listed

\* C11: the target set after the header parse is every member but the sender
\* for an empty list, every member for a list with '**', and the listed ids
\* for a list of ids; a member that a list of ids does not name is handed no
\* frame of the message, and a message whose listed ids are no members is
\* received without an error
C11_TargetSet ==
    /\ \A c \in Peers : JustParsed(c) =>
          LET listed == ListedBy[inbound[c].msg]
          IN /\ listed = {} => TargetsOf(c) = MemberIds \ {chamber.details[c].id}
             /\ <<"*", "*">> \in listed => TargetsOf(c) = MemberIds
             /\ Literal(listed) => TargetsOf(c) = listed
    /\ \A t \in Peers : \A i \in 1..Len(HandedTo(t)) :
          (HandedTo(t)[i].sender # ChamberSender
              /\ Literal(ListedBy[HandedTo(t)[i].info.tag[1]]))
          => chamber.details[t].id \in ListedBy[HandedTo(t)[i].info.tag[1]]
    /\ \A c \in Peers :
          (lastOp.op = "receivePart" /\ lastOp.ref = c
              /\ Literal(ListedBy[inbound[c].msg])
              /\ ListedBy[inbound[c].msg] \cap MemberIds = {})
          => lastOp.threw = "no"

\* a header that lists a member and an id that is no member has just been
\* parsed, and the member has been handed the message while another member,
\* not listed, has been handed nothing of it
C11_Witness ==
    \E c, t, u \in Members :
        /\ JustParsed(c)
        /\ Literal(ListedBy[inbound[c].msg])
        /\ ListedBy[inbound[c].msg] \ MemberIds # {}
        /\ chamber.details[t].id \in ListedBy[inbound[c].msg]
        /\ \E i \in 1..Len(HandedTo(t)) : HandedTo(t)[i].sender = c
        /\ chamber.details[u].id \notin ListedBy[inbound[c].msg]
        /\ \A i \in 1..Len(HandedTo(u)) : HandedTo(u)[i].sender # c

\* the members a '*' of peer c's message can stand for: not the sender and
\* not listed
Candidates(c) ==
    (MemberIds \ ListedBy[inbound[c].msg]) \ {chamber.details[c].id}

\* C12: for a list with '*' and without '**' the target set is the listed ids
\* and exactly one more member, neither the sender nor listed, when there is
\* one, and the listed ids alone when there is none; '*' is not in it, and the
\* sender is in it only when listed
C12_PickOneMore ==
    \A c \in Peers :
        (JustParsed(c) /\ <<"*">> \in ListedBy[inbound[c].msg]
            /\ <<"*", "*">> \notin ListedBy[inbound[c].msg]) =>
            LET ids == ListedBy[inbound[c].msg] \ {<<"*">>}
            IN /\ Candidates(c) = {} => TargetsOf(c) = ids
               /\ Candidates(c) # {} =>
                      \E x \in Candidates(c) : TargetsOf(c) = ids \cup {x}
               /\ <<"*">> \notin TargetsOf(c)
               /\ chamber.details[c].id \in TargetsOf(c) => chamber.details[c].id \in ids
               /\ Len(chamber.details[c].currentTargets) = Cardinality(TargetsOf(c))

\* a peer that listed itself and '*' has just had its header parsed while two
\* other members could be picked
C12_Witness ==
    \E c \in Members :
        /\ JustParsed(c)
        /\ ListedBy[inbound[c].msg] = {chamber.details[c].id, <<"*">>}
        /\ Cardinality(Candidates(c)) = 2
        /\ Cardinality(TargetsOf(c)) = 2

\* the addFrame calls made on the queue of peer t with peer s as sender
FramesFrom(s, t) == SelectSeq(HandedTo(t), LAMBDA h : h.sender = s)

\* the frames written to the socket of peer t for peer s
WrittenFrom(s, t) == SelectSeq(WrittenTo(t), LAMBDA f : f.from = s)

\* the payloads of frames k.. of a sequence of addFrame calls, joined
RECURSIVE PayloadFrom(_, _)
PayloadFrom(frames, k) ==
    IF k > Len(frames) THEN <<>>
    ELSE frames[k].info.data \o PayloadFrom(frames, k + 1)

\* the bytes of message m after its first newline
BodyOf(m) ==
    LET bytes == Concat(Messages[m])
    IN SubSeq(bytes, IndexOf(bytes, "\n") + 2, Len(bytes))

\* peer s has sent all of its message without an error, and peer t, still a
\* member, was handed the message from its first frame on
Delivered(s, t) ==
    /\ sock[s] = "open"
    /\ inbound[s].msg # 0
    /\ inbound[s].parts = <<>>
    /\ t \in Members
    /\ FramesFrom(s, t) # <<>>
    /\ ~FramesFrom(s, t)[1].info.continuation

\* nothing has disturbed the output of peer t: it is open, nothing waits in
\* its queue and no message to it was cut short
Undisturbed(t) ==
    /\ sock[t] = "open"
    /\ chamber.details[t].queue.queue = <<>>
    /\ \A i \in 1..Len(WrittenTo(t)) : WrittenTo(t)[i].from # Null

\* C13: a message delivered to a target is handed to it as one frame
\* 'F<id>\n' of the original opcode, not final and not a continuation, then
\* continuation frames of which only the last is final and whose payloads
\* joined are the bytes of the message after its first newline; an
\* undisturbed target has been written exactly these frames
C13_FramingKeepsBody ==
    \A s, t \in Peers : Delivered(s, t) =>
        LET frames == FramesFrom(s, t)
            wire == WrittenFrom(s, t)
        IN /\ frames[1].info.data = <<"F">> \o chamber.details[s].id \o <<"\n">>
           /\ ~frames[1].info.fin
           /\ Len(frames) >= 2
           /\ \A k \in 1..Len(frames) : frames[k].info.opcode = OpcodeOf(s)
           /\ \A k \in 2..Len(frames) :
                 /\ frames[k].info.continuation
                 /\ frames[k].info.fin = (k = Len(frames))
           /\ PayloadFrom(frames, 2) = BodyOf(inbound[s].msg)
           /\ Undisturbed(t) =>
                 /\ Len(wire) = Len(frames)
                 /\ \A k \in 1..Len(frames) :
                       /\ wire[k].data = frames[k].info.data
                       /\ wire[k].fin = frames[k].info.fin
                       /\ wire[k].opcode = IF k = 1 THEN OpcodeOf(s) ELSE 0

\* a message whose header is split over two parts, whose newline is a part
\* of its own and whose last part is empty has been delivered to another,
\* undisturbed peer
C13_Witness ==
    \E s, t \in Peers :
        /\ s # t
        /\ Delivered(s, t)
        /\ Undisturbed(t)
        /\ Len(Messages[inbound[s].msg]) = 5
        /\ Len(WrittenFrom(s, t)) = 3

-----------------------------------------------------------------------------
\* Properties of the chamber, continued (Spec)

\* the connection of peer c
ConnectionOf(c) == chamber.details[c].queue.connection

\* C14: a peer whose header bytes fill the header buffer without a newline
\* does not stay connected; when receivePart ends with 'Header too large' the
\* sender's connection is closed by a close frame with code 4000 and that
\* reason, nobody is ever handed a frame of such a message, and no other
\* peer's connection has been closed by it
C14_HeaderTooLarge ==
    /\ \A c \in Peers : sock[c] = "open" =>
          Len(chamber.details[c].headerBuffer.bytes) < chamber.limits.HEADERS_MAX_LENGTH
    /\ \A c \in Peers : (lastOp.threw = "HttpError" /\ lastOp.ref = c) =>
          /\ lastOp.op = "receivePart"
          /\ ConnectionOf(c).closed
          /\ LET f == WrittenTo(c)[Len(WrittenTo(c))]
             IN /\ f.opcode = 8
                /\ f.data = <<"4000", "Header too large">>
                /\ f.fin
          /\ \A t \in Peers : \A i \in 1..Len(HandedTo(t)) :
                HandedTo(t)[i].info.tag[1] # inbound[c].msg
          /\ \A d \in Peers \ {c} : sock[d] = "open" => ~ConnectionOf(d).closed

\* a peer has just been closed for a header too large while another peer is
\* connected
C14_Witness ==
    /\ lastOp.threw = "HttpError"
    /\ \E d \in Members \ {lastOp.ref} : sock[d] = "open"
    /\ sock[lastOp.ref] = "destroyed"

\* what holds once remove of peer l has returned: every remaining member has
\* been handed exactly one 'B<l.id>' and l none, l's id is not in the
\* connections map, and on every receiver with an open connection the last
\* frame of l, if not final, is followed by the zero-length final
\* continuation and 'X', before any 'B<l.id>'
Left(l) ==
    LET bye == <<"B">> \o chamber.details[l].id
    IN /\ lastOp = [op |-> "remove", ref |-> l, threw |-> "no"]
       /\ chamber.details[l].id \notin MemberIds
       /\ \A p \in Members : NoticesHanded(p, bye) = 1
       /\ NoticesHanded(l, bye) = 0
       /\ \A r \in Members : \A i \in 1..Len(WrittenTo(r)) :
             (/\ ~ConnectionOf(r).closed
              /\ WrittenTo(r)[i].from = l
              /\ ~WrittenTo(r)[i].fin
              /\ \A j \in (i + 1)..Len(WrittenTo(r)) : WrittenTo(r)[j].from # l)
             => /\ Len(WrittenTo(r)) >= i + 2
                /\ IsAbortMarker(WrittenTo(r)[i + 1])
                /\ IsTruncationNotice(WrittenTo(r)[i + 2])
                /\ \A j \in 1..(i + 2) :
                      ~(WrittenTo(r)[j].from = ChamberSender
                          /\ WrittenTo(r)[j].data = bye)

\* a message of peer l is open on another member r: l is the active sender
\* of r's queue
OpenOn(l, r) ==
    /\ r \in Members
    /\ r # l
    /\ chamber.details[r].queue.activeSender = l

\* C15: when peer L leaves while a message of L is open on a receiver R,
\* remove returns normally, R has been written the zero-length final
\* continuation and 'X' before it is handed 'B<L.id>', every remaining member
\* has been handed 'B<L.id>' and L has not, and L's id is no longer in the
\* connections map
C15_LeaveClosesOpenMessage ==
    [][\A l \in Conns :
          (/\ sock[l] \in {"open", "destroyed"}
           /\ sock'[l] = "closed"
           /\ \E r \in Conns : OpenOn(l, r))
          => Left(l)']_vars

-----------------------------------------------------------------------------
\* The directory (SpecD)

\* the connections joined to the chamber of url: accepted for it, and their
\* departure not yet handled
DirJoined(url) ==
    {c \in Conns : sock[c] \in {"open", "destroyed"} /\ request.room[c] = url}

\* the connections in the connections map of the chamber of url
DirMembers(url) ==
    {ChamberOf(halls, url).connections[i].ref :
        i \in 1..Len(ChamberOf(halls, url).connections)}

\* the latest operation was an accept that added connection c to a chamber
Accepted(c) ==
    /\ lastOp.op = "accept"
    /\ lastOp.ref = c
    /\ lastOp.threw # "TooManyChambers"

\* C16: after every accept and every departure the directory has a chamber
\* for a URL exactly when some peer is joined to it, and never two for one
\* URL; the peers of the chamber are the joined ones; a chamber whose first
\* peer has just been accepted is a fresh one: the peer is its only
\* connection, has id '0' and is handed the welcome 'I0' and nothing else.
C16_ChamberIffJoined ==
    /\ \A u \in DirURLs : HasChamber(halls, u) <=> DirJoined(u) # {}
    /\ \A i, j \in 1..Len(halls.chambers) :
          halls.chambers[i].url = halls.chambers[j].url => i = j
    /\ ~crashed => \A u \in DirURLs : HasChamber(halls, u) => DirMembers(u) = DirJoined(u)
    /\ \A c \in Conns :
          Accepted(c) /\ DirJoined(lastOp.url) = {c} =>
             /\ ChamberOf(halls, lastOp.url).connections = <<[id |-> <<"0">>, ref |-> c]>>
             /\ ChamberOf(halls, lastOp.url).idCounter = 1
             /\ DOMAIN ChamberOf(halls, lastOp.url).details = {c}
             /\ LET handed == ChamberOf(halls, lastOp.url).details[c].handed
                IN /\ Len(handed) = 1
                   /\ handed[1].sender = ChamberSender
                   /\ handed[1].info.data = <<"I", "0">>

\* a connection is accepted for a URL whose earlier chamber had peers that
\* sent a message and all left
C16_Witness ==
    \E c, d \in Conns :
        /\ Accepted(c)
        /\ DirJoined(lastOp.url) = {c}
        /\ sock[d] = "closed"
        /\ request.room[d] = lastOp.url
        /\ inbound[d].msg # 0
        /\ Len(halls.chambers) = 1

\* the close frame a connection refused for the number of chambers is sent
RefusedTooMany(c) ==
    /\ request.outside[c].closed
    /\ Len(request.outside[c].written) = 1
    /\ request.outside[c].written[1].opcode = 8
    /\ request.outside[c].written[1].data = <<"1013", "Too many chambers">>

\* C17: the directory never holds more than MAX_CHAMBERS chambers; an accept
\* for a URL without a chamber while MAX_CHAMBERS exist is refused with close
\* code 1013 'Too many chambers' and leaves the map as it was; an accept for a
\* URL that has a chamber is not refused for the number of chambers: the
\* connection is added to that chamber and the map keeps its URLs.
C17_ChambersBounded ==
    [][/\ Len(halls'.chambers) <= halls'.limits.MAX_CHAMBERS
       /\ \A c \in Conns :
             (sock[c] = "none" /\ lastOp'.op = "accept" /\ lastOp'.ref = c) =>
                IF HasChamber(halls, lastOp'.url)
                THEN /\ lastOp'.threw # "TooManyChambers"
                     /\ c \in DOMAIN ChamberOf(halls', lastOp'.url).details
                     /\ [i \in 1..Len(halls'.chambers) |-> halls'.chambers[i].url]
                           = [i \in 1..Len(halls.chambers) |-> halls.chambers[i].url]
                     /\ request'.outside[c] = NewConnection
                ELSE IF Len(halls.chambers) >= halls.limits.MAX_CHAMBERS
                THEN /\ lastOp'.threw = "TooManyChambers"
                     /\ halls' = halls
                     /\ RefusedTooMany(c)'
                     /\ sock'[c] = "refused"
                ELSE /\ lastOp'.threw = "no"
                     /\ Len(halls'.chambers) = Len(halls.chambers) + 1]_vars

\* a connection is refused for the number of chambers after two were accepted
\* into the one chamber there may be
C17_Witness ==
    /\ lastOp.op = "accept"
    /\ lastOp.threw = "TooManyChambers"
    /\ RefusedTooMany(lastOp.ref)
    /\ Len(halls.chambers) = halls.limits.MAX_CHAMBERS
    /\ \E u \in DirURLs : Cardinality(DirJoined(u)) = 2

-----------------------------------------------------------------------------
\* The chamber with a limit of connections (SpecL)

\* the close frame a joiner rejected by a full chamber is sent, and nothing else
RefusedFull(c) ==
    /\ request.outside[c].closed
    /\ Len(request.outside[c].written) = 1
    /\ request.outside[c].written[1].opcode = 8
    /\ request.outside[c].written[1].data = <<"1013", "Chamber is full">>

C19_TwoPeersNeverQueue ==
    (/\ chamber.limits.MAX_QUEUE_ITEMS = 0
     /\ chamber.limits.MAX_QUEUE_DATA = 0
     /\ HasProp(chamber.limits, "CHAMBER_MAX_CONNECTIONS")
     /\ chamber.limits.CHAMBER_MAX_CONNECTIONS = 2)
    => \A t \in Peers : \A i \in 1..Len(HandedTo(t)) :
          HandedTo(t)[i].found \in {Null, HandedTo(t)[i].sender}

-----------------------------------------------------------------------------
\* The directory's test (SpecD)

\* the URLs requested that begin with the base URL '/a/'
UnderBase == { <<"/", "a", "/", "x">>, <<"/", "a", "/", "y">> }

\* the protocol lists requested that contain 'echo'
WantsEcho(protocols) == protocols \in { <<"echo">>, <<"chat", "echo">> }

\* the permitted origins, as a set
Permitted == {halls.permittedOrigins[i] : i \in 1..Len(halls.permittedOrigins)}

\* the Origin header is there and is a permitted origin
OriginPermitted(headers) ==
    "Origin" \in DOMAIN headers /\ headers["Origin"] \in Permitted

\* the Origin header, or '' for a request without one, is a permitted origin
OriginOrEmptyPermitted(headers) ==
    IF "Origin" \in DOMAIN headers THEN headers["Origin"] \in Permitted
    ELSE "" \in Permitted

\* what test is to make of a request, given whether its origin is a member
ExpectedChoice(url, protocols, member) ==
    IF ~WantsEcho(protocols) \/ url \notin UnderBase
    THEN [protocol |-> "none", status |-> 0, acceptor |-> <<>>]
    ELSE IF Permitted # {} /\ ~member
    THEN [protocol |-> "none", status |-> 403, acceptor |-> <<>>]
    ELSE [protocol |-> "echo", status |-> 0, acceptor |-> url]

\* this step is the handshake of an upgrade request
Tested == ops' = ops + 1 /\ lastOp'.op \in {"test", "accept"}

\* C20, as stated: test returns null without 'echo' among the protocols or
\* with a URL not under baseURL; else fails with 403 when permittedOrigins is
\* not empty and the Origin header is not a member, a missing header counting
\* as not a member; else returns 'echo' with an acceptor for the URL; a test
\* without a choice leaves the directory as it was.
C20_TestMissingOriginRefused ==
    [][Tested =>
          /\ lastOp'.choice = ExpectedChoice(lastOp'.url, lastOp'.protocols,
                                             OriginPermitted(lastOp'.headers))
          /\ lastOp'.op = "test" <=> lastOp'.choice.protocol = "none"
          /\ lastOp'.op = "test" => halls' = halls]_vars

\* C20, amended: as above, but a request without an Origin header has the
\* origin '': it fails with 403 unless '' is itself one of permittedOrigins.
C20_TestChoice ==
    [][Tested =>
          /\ lastOp'.choice = ExpectedChoice(lastOp'.url, lastOp'.protocols,
                                             OriginOrEmptyPermitted(lastOp'.headers))
          /\ lastOp'.op = "test" <=> lastOp'.choice.protocol = "none"
          /\ lastOp'.op = "test" => halls' = halls]_vars

\* a request for 'echo' under the base URL without an Origin header fails
\* with 403 while the directory has a chamber
C20_Witness ==
    /\ lastOp.op = "test"
    /\ lastOp.choice.status = 403
    /\ "Origin" \notin DOMAIN lastOp.headers
    /\ WantsEcho(lastOp.protocols)
    /\ lastOp.url \in UnderBase
    /\ Len(halls.chambers) = 1

-----------------------------------------------------------------------------
\* closeSender (SpecQ)

\* the frames of sender s waiting in the queue, in order
QueuedOf(s) == SelectSeq(oq.queue, LAMBDA item : item.sender = s)

\* sender s is not the active sender and the last of its waiting frames
\* ends a message
EndsComplete(s) ==
    /\ oq.activeSender # s
    /\ QueuedOf(s) # <<>>
    /\ QueuedOf(s)[Len(QueuedOf(s))].info.fin

\* C30: closeSender(s), called when s is not the active sender and the last
\* queued frame of s has fin = true, leaves the queue and activeSender as
\* they were and writes nothing.
C30_CloseSenderKeepsComplete ==
    [][\A s \in QConns :
          (/\ pos[s].state # "gone"
           /\ pos'[s].state = "gone"
           /\ EndsComplete(s))
          => oq' = oq]_vars

-----------------------------------------------------------------------------
\* wsFrameUtils: frame headers as sequences of bytes. A payload length is
\* four 16-bit digits, least significant first; a 32-bit word is two.

\* 0x10000
Limb == 65536

\* dataLength < 126
LengthBelow126(len) == len[1] < 126 /\ len[2] = 0 /\ len[3] = 0 /\ len[4] = 0

\* dataLength < 0x10000
LengthBelow65536(len) == len[2] = 0 /\ len[3] = 0 /\ len[4] = 0

\* writeUInt16BE(n)
UInt16BE(n) == <<n \div 256, n % 256>>

\* writeUInt32BE(word)
UInt32BE(word) == UInt16BE(word[2]) \o UInt16BE(word[1])

\* writeUInt32BE accepts the value: it is at most 0xFFFFFFFF
FitsUInt32(len) == len[3] = 0 /\ len[4] = 0

\* dataLength >>> 32: the shift count is taken modulo 32, so this is
\* dataLength >>> 0, the length modulo 2^32
ShiftRight32(len) == <<len[1], len[2]>>

\* writeFrameHeader(socket, opcode, dataLength, fin): the bytes written to the
\* socket, or the RangeError of writeUInt32BE
WriteFrameHeader(opcode, len, fin) ==
    LET b0 == (IF fin THEN 128 ELSE 0) + opcode
    IN IF LengthBelow126(len)
       THEN [threw |-> FALSE, bytes |-> <<b0, len[1]>>]
       ELSE IF LengthBelow65536(len)
       THEN [threw |-> FALSE, bytes |-> <<b0, 126>> \o UInt16BE(len[1])]
       ELSE IF ~FitsUInt32(len)
       THEN [threw |-> TRUE, bytes |-> <<>>]
       ELSE [threw |-> FALSE,
             bytes |-> <<b0, 127>> \o UInt32BE(ShiftRight32(len))
                          \o UInt32BE(<<len[1], len[2]>>)]

\* readFrameHeader returns null
NoFrame ==
    [fin |-> FALSE, rsv1 |-> FALSE, rsv2 |-> FALSE, rsv3 |-> FALSE,
     isCommand |-> FALSE, opcode |-> 0, lengthH |-> <<0, 0>>, lengthL |-> <<0, 0>>,
     mask |-> <<>>, headerSize |-> 0]

\* readUInt16BE(at), with at counted from 0
ReadUInt16BE(data, at) == data[at + 1] * 256 + data[at + 2]

\* readUInt32BE(at)
ReadUInt32BE(data, at) == <<ReadUInt16BE(data, at + 2), ReadUInt16BE(data, at)>>

\* readFrameHeader(data): null while the header is incomplete; mask <<>> is null
ReadFrameHeader(data) ==
    IF Len(data) < 2
    THEN NoFrame
    ELSE LET b0 == data[1]
             b1 == data[2]
             opcode == b0 % 16
             hasMask == b1 \div 128 = 1
             len7 == b1 % 128
             extraLength == IF len7 = 127 THEN 8 ELSE IF len7 = 126 THEN 2 ELSE 0
             headerSize == 2 + extraLength + (IF hasMask THEN 4 ELSE 0)
         IN IF Len(data) < headerSize
            THEN NoFrame
            ELSE [fin |-> b0 \div 128 = 1,
                  rsv1 |-> (b0 \div 64) % 2 = 1,
                  rsv2 |-> (b0 \div 32) % 2 = 1,
                  rsv3 |-> (b0 \div 16) % 2 = 1,
                  isCommand |-> (opcode \div 8) % 2 = 1,
                  opcode |-> opcode,
                  lengthH |-> IF len7 = 127 THEN ReadUInt32BE(data, 2) ELSE <<0, 0>>,
                  lengthL |-> IF len7 = 126 THEN <<ReadUInt16BE(data, 2), 0>>
                              ELSE IF len7 = 127 THEN ReadUInt32BE(data, 6)
                              ELSE <<len7, 0>>,
                  mask |-> IF hasMask
                           THEN SubSeq(data, 3 + extraLength, 6 + extraLength)
                           ELSE <<>>,
                  headerSize |-> headerSize]

-----------------------------------------------------------------------------
\* SpecH: a frame header is written for a payload length and read back

\* the payload lengths: 0, 1, 125, 126, 127, 65535, 65536, 65537, 2^31,
\* 2^32 - 1, 2^32 and 2^32 + 1
CodecLengths ==
    { <<0, 0, 0, 0>>, <<1, 0, 0, 0>>, <<125, 0, 0, 0>>, <<126, 0, 0, 0>>,
      <<127, 0, 0, 0>>, <<Limb - 1, 0, 0, 0>>, <<0, 1, 0, 0>>, <<1, 1, 0, 0>>,
      <<0, Limb \div 2, 0, 0>>, <<Limb - 1, Limb - 1, 0, 0>>, <<0, 0, 1, 0>>,
      <<1, 0, 1, 0>> }

\* the opcodes frames are written with
CodecOpcodes == {0, 1, 2, 8, 9, 10}

InitH ==
    /\ QueueIdle
    /\ ChamberIdle
    /\ DirectoryIdle
    /\ wsc = <<>>
    /\ server = <<>>
    /\ \E len \in CodecLengths, opcode \in CodecOpcodes, fin \in BOOLEAN :
          codec = [stage |-> "input", len |-> len, opcode |-> opcode, fin |-> fin,
                   written |-> [threw |-> FALSE, bytes |-> <<>>], frame |-> NoFrame]

\* the header is written
WriteHeader ==
    /\ codec.stage = "input"
    /\ codec' = [codec EXCEPT
                    !.stage = "written",
                    !.written = WriteFrameHeader(codec.opcode, codec.len, codec.fin)]
    /\ UNCHANGED <<qvars, cvars, dvars, wsc, server>>

\* the header written is read
ReadHeader ==
    /\ codec.stage = "written"
    /\ ~codec.written.threw
    /\ codec' = [codec EXCEPT !.stage = "read",
                              !.frame = ReadFrameHeader(codec.written.bytes)]
    /\ UNCHANGED <<qvars, cvars, dvars, wsc, server>>

NextH == WriteHeader \/ ReadHeader

SpecH == InitH /\ [][NextH]_vars

-----------------------------------------------------------------------------
\* The header codec (SpecH)

\* the number of bytes of the smallest header for a length
SmallestHeader(len) ==
    IF len[2] = 0 /\ len[3] = 0 /\ len[4] = 0
    THEN IF len[1] <= 125 THEN 2 ELSE 4
    ELSE 10

\* C28: for every payload length L the header written is the smallest valid
\* form, has no mask bit, and read back gives the same fin and opcode and a
\* length with lengthH * 2^32 + lengthL = L.
C28_HeaderRoundTrip ==
    /\ codec.stage = "written" =>
          /\ ~codec.written.threw
          /\ Len(codec.written.bytes) = SmallestHeader(codec.len)
          /\ codec.written.bytes[2] < 128
    /\ codec.stage = "read" =>
          /\ codec.frame.headerSize = SmallestHeader(codec.len)
          /\ codec.frame.fin = codec.fin
          /\ codec.frame.opcode = codec.opcode
          /\ codec.frame.mask = <<>>
          /\ codec.frame.lengthL = <<codec.len[1], codec.len[2]>>
          /\ codec.frame.lengthH = <<codec.len[3], codec.len[4]>>

-----------------------------------------------------------------------------
\* WebSocketConnection: one connection at the level of the bytes of its socket

\* COMMAND_MAX_SIZE
COMMAND_MAX_SIZE == 125

\* FRAME_HEADER_MAX_SIZE
FRAME_HEADER_MAX_SIZE == 14

\* HTTP_HEADER_MAX_LINE_LENGTH
HTTP_HEADER_MAX_LINE_LENGTH == 1024

\* `code = null` of close(code, message)
NoCode == -1

\* `this.url = null`
NoURL == <<"null">>

\* nothing thrown
NoError == [thrown |-> FALSE, status |-> 0, message |-> ""]

\* new HttpError(status, message)
HttpError(status, message) == [thrown |-> TRUE, status |-> status, message |-> message]

\* new Error(message): an object without a status
PlainError(message) == [thrown |-> TRUE, status |-> 0, message |-> message]

\* Buffer.byteLength of the texts the connection writes
WireByteLength(message) ==
    IF message = "Command message max length exceeded" THEN 35
    ELSE IF message = "Command messages cannot be split" THEN 32
    ELSE IF message = "No mask specified" THEN 17
    ELSE IF message = "Unknown use of reserved header bits" THEN 35
    ELSE IF message = "Previous message not finished" THEN 29
    ELSE IF message = "Continuation of finished message" THEN 32
    ELSE IF message = "Unknown command opcode" THEN 22
    ELSE IF message = "Shutting down" THEN 13
    ELSE IF message = "x" THEN 1
    ELSE ByteLength(message)

\* the utf8 bytes of a text the server writes: byte i of the text, unread by
\* the server afterwards
Utf8(message) == [i \in 1..WireByteLength(message) |-> <<message, i>>]

\* a ^ b on bytes
RECURSIVE Xor(_, _)
Xor(a, b) ==
    IF a = 0 /\ b = 0 THEN 0
    ELSE ((a + b) % 2) + 2 * Xor(a \div 2, b \div 2)

\* the constructor: nothing read, nothing written, the line buffer of the
\* handshake unclaimed. log is what the connection did, in order: the events
\* it emitted and what it wrote to, or did with, its socket
NewWebSocketConnection ==
    [closed |-> FALSE, url |-> NoURL, headers |-> <<>>, hasUpgraded |-> FALSE,
     frame |-> NoFrame, lastNonContOpcode |-> 0, frameMaskPos |-> 0,
     buffer |-> NewOnDemandBuffer(HTTP_HEADER_MAX_LINE_LENGTH),
     err |-> NoError, ended |-> FALSE, destroyed |-> FALSE, log |-> <<>>]

\* this.emit(name, arg)
Emit(w, name, arg) ==
    [w EXCEPT !.log = Append(@, [kind |-> "emit", name |-> name, arg |-> arg])]

\* socket.end()
WsSocketEnd(w) ==
    [w EXCEPT !.ended = TRUE, !.log = Append(@, [kind |-> "end"])]

\* socket.destroy()
WsSocketDestroy(w) ==
    [w EXCEPT !.destroyed = TRUE, !.log = Append(@, [kind |-> "destroy"])]

\* sendFrame that writes although the connection is closed
WsSendFrameAlways(w, opcode, data, fin) ==
    [w EXCEPT !.log = Append(@,
        [kind |-> "frame",
         header |-> WriteFrameHeader(opcode, <<Len(data), 0, 0, 0>>, fin).bytes,
         payload |-> data])]

\* sendFrame(opcode, data, fin): returns when closed; throws for a command
\* frame over 125 bytes; else writes the header and the payload (data = null
\* is the empty payload)
WsSendFrame(w, opcode, data, fin) ==
    IF w.closed
    THEN w
    ELSE IF (opcode \div 8) % 2 = 1 /\ Len(data) > COMMAND_MAX_SIZE
    THEN [w EXCEPT !.err = PlainError("Message too long for command frame")]
    ELSE [w EXCEPT !.log = Append(@,
            [kind |-> "frame",
             header |-> WriteFrameHeader(opcode, <<Len(data), 0, 0, 0>>, fin).bytes,
             payload |-> data])]

\* send(message) with a string
WsSend(w, message) == WsSendFrame(w, 1, Utf8(message), TRUE)

\* ping(message)
WsPing(w, data) == WsSendFrame(w, 9, data, TRUE)

\* a pong without the payload
WsPongEmpty(w, data) == WsSendFrame(w, 10, <<>>, TRUE)

\* pong(message)
WsPong(w, data) == WsSendFrame(w, 10, data, TRUE)

\* close(code, message): returns when closed; else writes one close frame
\* (empty for code = null, else the code and the message) and sets closed
WsClose(w, code, message) ==
    IF w.closed
    THEN w
    ELSE IF code = NoCode
    THEN [WsSendFrame(w, 8, <<>>, TRUE) EXCEPT !.closed = TRUE]
    ELSE IF 2 + WireByteLength(message) > COMMAND_MAX_SIZE
    THEN [w EXCEPT !.err = PlainError("Close reason too long")]
    ELSE [WsSendFrame(w, 8, UInt16BE(code) \o Utf8(message), TRUE)
            EXCEPT !.closed = TRUE]

\* http.STATUS_CODES[status]
StatusText(status) ==
    IF status = 400 THEN "Bad Request"
    ELSE IF status = 403 THEN "Forbidden"
    ELSE IF status = 404 THEN "Not Found"
    ELSE IF status = 500 THEN "Internal Server Error"
    ELSE "undefined"

\* error(e) that leaves the socket open
WsErrorKept(w, e) ==
    LET status == IF e.status # 0 THEN e.status
                  ELSE IF w.hasUpgraded THEN 1011 ELSE 500
        message == IF e.status # 0 THEN e.message ELSE "An internal error occurred"
        emitted == Emit(w, "error", [status |-> status, message |-> message])
    IN IF w.hasUpgraded
       THEN WsClose(emitted, status, message)
       ELSE [emitted EXCEPT !.log = Append(@,
               [kind |-> "http", status |-> status,
                statusText |-> StatusText(status), body |-> message])]

\* error(e): status and message of an HttpError, else 1011 after the upgrade
\* and 500 before it; emits 'error'; after the upgrade close(status, message),
\* before it the HTTP response; then the socket is destroyed. An exception of
\* close leaves error before the socket is destroyed
WsError(w, e) ==
    LET status == IF e.status # 0 THEN e.status
                  ELSE IF w.hasUpgraded THEN 1011 ELSE 500
        message == IF e.status # 0 THEN e.message ELSE "An internal error occurred"
        emitted == Emit(w, "error", [status |-> status, message |-> message])
        Then(answered) == IF answered.err.thrown THEN answered
                          ELSE WsSocketDestroy(answered)
    IN Then(IF w.hasUpgraded
            THEN WsClose(emitted, status, message)
            ELSE [emitted EXCEPT !.log = Append(@,
                    [kind |-> "http", status |-> status,
                     statusText |-> StatusText(status), body |-> message])])

\* _end: the socket's 'end'
WsEnd(w) == Emit([w EXCEPT !.closed = TRUE], "end", <<>>)

\* _close: the socket's 'close'
WsOnClose(w) ==
    Emit([w EXCEPT !.closed = TRUE, !.buffer = BufferClear(@)], "close", <<>>)

\* setCapacity(cap): a change of capacity clears the buffer
SetCapacity(b, cap) ==
    IF b.cap = cap THEN b ELSE [BufferClear(b) EXCEPT !.cap = cap]

\* _handleCommandOpcode(data, opcode)
HandleCommandOpcode(w, data, opcode) ==
    IF opcode = 8
    THEN LET code == IF Len(data) >= 2 THEN ReadUInt16BE(data, 0) ELSE NoCode
             message == IF Len(data) >= 2 THEN SubSeq(data, 3, Len(data)) ELSE <<>>
             emitted == Emit(w, "close-received",
                             [code |-> IF code = NoCode \/ code = 0 THEN 1005 ELSE code,
                              message |-> message])
             Then(replied) == IF replied.err.thrown THEN replied
                              ELSE WsSocketEnd(replied)
         IN Then(IF ~emitted.closed THEN WsClose(emitted, code, "") ELSE emitted)
    ELSE IF opcode = 9
    THEN WsPong(Emit(w, "ping", [data |-> data]), data)
    ELSE IF opcode = 10
    THEN Emit(w, "pong", [data |-> data])
    ELSE [w EXCEPT !.err = HttpError(1002, "Unknown command opcode")]

\* the unmasking, were frameMaskPos not kept from chunk to chunk
UnmaskFromZero(data, mask, p) ==
    [i \in 1..Len(data) |-> Xor(data[i], mask[((i - 1) % 4) + 1])]

\* frameData[i] ^= mask[(p + i) & 3]
Unmask(data, mask, p) ==
    [i \in 1..Len(data) |-> Xor(data[i], mask[((p + i - 1) % 4) + 1])]

\* n >= word, for a 32-bit word and n below 2^16
WordAtMost(word, n) == word[2] = 0 /\ word[1] <= n

\* word - n modulo 2^32, for n below 2^16
WordMinus(word, n) ==
    IF word[1] >= n THEN <<word[1] - n, word[2]>>
    ELSE IF word[2] > 0 THEN <<word[1] + Limb - n, word[2] - 1>>
    ELSE <<word[1] + Limb - n, Limb - 1>>

\* the command branch of _processNextFrameChunk: the payload is gathered in
\* the buffer and handled when its last byte is there
CommandChunk(w, frameData, lastOfFrame) ==
    LET b == SetCapacity(w.buffer, COMMAND_MAX_SIZE)
        Then(handled) ==
            IF handled.err.thrown
            THEN [handled EXCEPT !.buffer = IF b.buffer THEN BufferAdd(b, frameData)
                                            ELSE b]
            ELSE [handled EXCEPT !.buffer = AfterTest(b, frameData, lastOfFrame)]
    IN Then(IF lastOfFrame
            THEN HandleCommandOpcode(w, TestData(b, frameData), w.frame.opcode)
            ELSE w)

\* the message branch of _processNextFrameChunk
MessageChunk(w, frameData, lastOfFrame) ==
    LET part == Emit(w, "message-part",
                     [data |-> frameData, opcode |-> w.lastNonContOpcode,
                      continuation |-> w.frame.opcode = 0,
                      fin |-> w.frame.fin /\ lastOfFrame])
    IN IF ~lastOfFrame THEN part
       ELSE IF w.frame.fin
       THEN Emit(Emit(part, "frame-end", <<>>), "message-end", <<>>)
       ELSE Emit(part, "frame-end", <<>>)

\* _processNextFrameChunk(d): the connection afterwards and the bytes taken
ProcessNextFrameChunk(w, d) ==
    LET frame == w.frame
        lastOfFrame == WordAtMost(frame.lengthL, Len(d)) /\ frame.lengthH = <<0, 0>>
        bytesAvailable == IF lastOfFrame THEN frame.lengthL[1] ELSE Len(d)
        raw == SubSeq(d, 1, bytesAvailable)
        frameData == IF frame.mask # <<>>
                     THEN Unmask(raw, frame.mask, w.frameMaskPos) ELSE raw
        unmasked == IF frame.mask # <<>>
                    THEN [w EXCEPT !.frameMaskPos = (@ + bytesAvailable) % 4]
                    ELSE w
        Then(done) ==
            IF done.err.thrown THEN done
            ELSE IF lastOfFrame
            THEN [done EXCEPT !.lastNonContOpcode = IF frame.fin THEN 0 ELSE @,
                              !.frame = NoFrame]
            ELSE [done EXCEPT
                    !.frame.lengthL = WordMinus(@, bytesAvailable),
                    !.frame.lengthH = IF WordAtMost(frame.lengthL, bytesAvailable - 1)
                                      THEN WordMinus(@, 1) ELSE @]
    IN [w |-> Then(IF frame.isCommand
                   THEN CommandChunk(unmasked, frameData, lastOfFrame)
                   ELSE MessageChunk(unmasked, frameData, lastOfFrame)),
        bytes |-> bytesAvailable]

\* _beginFrame(frame)
BeginFrame(w, frame) ==
    IF frame.isCommand /\ (~WordAtMost(frame.lengthL, COMMAND_MAX_SIZE)
                           \/ frame.lengthH # <<0, 0>>)
    THEN [w EXCEPT !.err = HttpError(1002, "Command message max length exceeded")]
    ELSE IF frame.isCommand /\ ~frame.fin
    THEN [w EXCEPT !.err = HttpError(1002, "Command messages cannot be split")]
    ELSE IF frame.mask = <<>>
    THEN [w EXCEPT !.err = HttpError(1002, "No mask specified")]
    ELSE IF frame.rsv1 \/ frame.rsv2 \/ frame.rsv3
    THEN [w EXCEPT !.err = HttpError(1002, "Unknown use of reserved header bits")]
    ELSE LET begun == [w EXCEPT !.frame = frame, !.frameMaskPos = 0]
         IN IF frame.isCommand THEN begun
            ELSE IF frame.opcode # 0
            THEN IF w.lastNonContOpcode # 0
                 THEN [begun EXCEPT
                         !.err = HttpError(1002, "Previous message not finished")]
                 ELSE Emit(Emit([begun EXCEPT !.lastNonContOpcode = frame.opcode],
                                "message-start", [opcode |-> frame.opcode]),
                           "frame-start", [fin |-> frame.fin])
            ELSE IF w.lastNonContOpcode = 0
            THEN [begun EXCEPT
                    !.err = HttpError(1002, "Continuation of finished message")]
            ELSE Emit(begun, "frame-start", [fin |-> frame.fin])

\* the inner loop of _data: while a frame is open its payload is taken from
\* d, once at least, so that a frame without payload ends at once
RECURSIVE ProcessFrame(_, _, _)
ProcessFrame(w, d, offset) ==
    IF w.frame = NoFrame
    THEN [w |-> w, offset |-> offset]
    ELSE LET Then(r) ==
                IF r.w.err.thrown \/ offset + r.bytes >= Len(d)
                THEN [w |-> r.w, offset |-> offset + r.bytes]
                ELSE ProcessFrame(r.w, d, offset + r.bytes)
         IN Then(ProcessNextFrameChunk(w, Slice(d, offset)))

\* the loop of _data: the open frame's payload, then the next header, which
\* is gathered in the buffer while it is incomplete
RECURSIVE DataLoop(_, _, _)
DataLoop(w, d, offset) ==
    LET Then(p) ==
            IF p.w.err.thrown \/ p.offset >= Len(d)
            THEN p.w
            ELSE LET existingBufferData == BufferSize(p.w.buffer)
                     b == SetCapacity(p.w.buffer, FRAME_HEADER_MAX_SIZE)
                     rest == Slice(d, p.offset)
                     Begin(frame) ==
                        IF frame = NoFrame
                        THEN [p.w EXCEPT !.buffer = AfterTest(b, rest, FALSE)]
                        ELSE LET After(begun) ==
                                    IF begun.err.thrown THEN begun
                                    ELSE DataLoop(begun, d,
                                            p.offset + frame.headerSize
                                                - existingBufferData)
                             IN After(BeginFrame(
                                    [p.w EXCEPT !.buffer = AfterTest(b, rest, TRUE)],
                                    frame))
                 IN Begin(ReadFrameHeader(TestData(b, rest)))
    IN Then(ProcessFrame(w, d, offset))

\* _data(d): an exception of the loop goes to error(e)
WsData(w, d) ==
    LET Then(r) == IF r.err.thrown THEN WsError([r EXCEPT !.err = NoError], r.err)
                   ELSE r
    IN Then(DataLoop(w, d, 0))

-----------------------------------------------------------------------------
\* SpecW: one upgraded connection. A client's frames arrive in chunks of any
\* size while the server side calls send, ping, pong and close on it.

\* the calls the server side makes on the connection in one run
MaxAppCalls == 2

\* the masking key of the client's frames
ClientMask == <<165, 3, 0, 255>>

\* a client's frame as it is sent: fin, the reserved bits, the opcode, the
\* masking key (<<>> for none), the payload length announced (huge: 2^32 in
\* the 64-bit form) and the payload bytes sent
Frame(fin, rsv, opcode, mask, payload) ==
    [fin |-> fin, rsv |-> rsv, opcode |-> opcode, mask |-> mask,
     len |-> Len(payload), huge |-> FALSE, payload |-> payload]

\* the first bytes of a client's frame: fin, the reserved bits, the opcode,
\* the mask bit and the length in its 7-bit, 16-bit or 64-bit form, the key
ClientHeader(f) ==
    <<(IF f.fin THEN 128 ELSE 0) + 16 * f.rsv + f.opcode,
      (IF f.mask # <<>> THEN 128 ELSE 0)
         + (IF f.huge THEN 127 ELSE IF f.len < 126 THEN f.len ELSE 126)>>
    \o (IF f.huge THEN <<0, 0, 0, 1, 0, 0, 0, 0>>
        ELSE IF f.len < 126 THEN <<>> ELSE UInt16BE(f.len))
    \o f.mask

\* a client's frame on the wire: the header and the payload, masked when
\* there is a key
ClientFrame(f) ==
    ClientHeader(f)
    \o (IF f.mask # <<>> THEN Unmask(f.payload, f.mask, 0) ELSE f.payload)

\* the bytes of a sequence of frames
RECURSIVE ClientBytes(_)
ClientBytes(frames) ==
    IF frames = <<>> THEN <<>>
    ELSE ClientFrame(Head(frames)) \o ClientBytes(Tail(frames))

\* what clients send after the upgrade
ClientStreams ==
    { \* a text message in two frames with a ping between them
      << Frame(FALSE, 0, 1, ClientMask, <<104, 105>>),
         Frame(TRUE, 0, 9, ClientMask, <<97, 98>>),
         Frame(TRUE, 0, 0, ClientMask, <<33>>) >>,
      \* a ping of five bytes, then a text message
      << Frame(TRUE, 0, 9, ClientMask, <<1, 2, 3, 4, 5>>),
         Frame(TRUE, 0, 1, ClientMask, <<104>>) >>,
      \* a pong, a ping without payload, a binary message
      << Frame(TRUE, 0, 10, ClientMask, <<97>>),
         Frame(TRUE, 0, 9, ClientMask, <<>>),
         Frame(TRUE, 0, 2, ClientMask, <<0>>) >>,
      \* a ping that announces 126 bytes
      << [Frame(TRUE, 0, 9, ClientMask, <<1, 2>>) EXCEPT !.len = 126] >>,
      \* a ping that announces 2^32 bytes
      << [Frame(TRUE, 0, 9, ClientMask, <<1>>) EXCEPT !.huge = TRUE] >>,
      \* a ping that is not final
      << Frame(FALSE, 0, 9, ClientMask, <<97>>),
         Frame(TRUE, 0, 1, ClientMask, <<104>>) >>,
      \* a text frame without a mask
      << Frame(TRUE, 0, 1, <<>>, <<104>>),
         Frame(TRUE, 0, 1, ClientMask, <<105>>) >>,
      \* a text frame with a reserved bit
      << Frame(TRUE, 4, 1, ClientMask, <<104>>),
         Frame(TRUE, 0, 1, ClientMask, <<105>>) >>,
      \* a second text frame while the first message is open
      << Frame(FALSE, 0, 1, ClientMask, <<104>>),
         Frame(TRUE, 0, 1, ClientMask, <<105>>) >>,
      \* a continuation while no message is open
      << Frame(TRUE, 0, 1, ClientMask, <<104>>),
         Frame(TRUE, 0, 0, ClientMask, <<105>>) >>,
      \* a command with an unknown opcode
      << Frame(TRUE, 0, 11, ClientMask, <<97>>) >>,
      \* a close with code 1000 and a reason, then a text message
      << Frame(TRUE, 0, 8, ClientMask, <<3, 232, 107>>),
         Frame(TRUE, 0, 1, ClientMask, <<104>>) >>,
      \* a close without payload
      << Frame(TRUE, 0, 8, ClientMask, <<>>) >>,
      \* a close with one byte of payload, then a second close
      << Frame(TRUE, 0, 8, ClientMask, <<3>>),
         Frame(TRUE, 0, 8, ClientMask, <<3, 233>>) >>,
      \* a close with code 0
      << Frame(TRUE, 0, 8, ClientMask, <<0, 0>>) >>,
      \* a close with code 1001, then a ping and a frame without a mask
      << Frame(TRUE, 0, 8, ClientMask, <<3, 233>>),
         Frame(TRUE, 0, 9, ClientMask, <<97>>),
         Frame(TRUE, 0, 1, <<>>, <<104>>) >>,
      \* a binary frame that announces 2^32 bytes
      << [Frame(TRUE, 0, 2, ClientMask, <<1, 2>>) EXCEPT !.huge = TRUE] >> }

\* what _completeHandshake leaves: upgraded, the line buffer cleared
UpgradedConnection ==
    [NewWebSocketConnection EXCEPT !.hasUpgraded = TRUE]

\* the calls of the server side: the relay's send and sendFrame, ping and
\* pong, and the close of the server's shutdown
AppCalls == {"send", "sendFrame", "ping", "pong", "close"}

\* one call of the server side on the connection
AppCall(w, call) ==
    IF call = "send" THEN WsSend(w, "x")
    ELSE IF call = "sendFrame" THEN WsSendFrame(w, 0, Utf8("x"), FALSE)
    ELSE IF call = "ping" THEN WsPing(w, <<>>)
    ELSE IF call = "pong" THEN WsPong(w, <<>>)
    ELSE WsClose(w, 1001, "Shutting down")

InitW ==
    /\ QueueIdle
    /\ ChamberIdle
    /\ DirectoryIdle
    /\ codec = <<>>
    /\ server = <<>>
    /\ \E stream \in ClientStreams :
          wsc = [connection |-> UpgradedConnection, stream |-> stream,
                 inbound |-> ClientBytes(stream), received |-> 0,
                 appCalls |-> 0, peerEnded |-> FALSE, socketClosed |-> FALSE]

\* the socket's 'data': the next n bytes of the client arrive (_data)
WsReceive(n) ==
    /\ ~wsc.connection.destroyed
    /\ ~wsc.peerEnded
    /\ ~wsc.socketClosed
    /\ n <= Len(wsc.inbound)
    /\ wsc' = [wsc EXCEPT
                  !.connection = WsData(@, SubSeq(wsc.inbound, 1, n)),
                  !.inbound = Slice(@, n),
                  !.received = @ + n]
    /\ UNCHANGED <<qvars, cvars, dvars, codec, server>>

\* the socket's 'end': the client has sent all it sends (_end)
WsPeerEnd ==
    /\ ~wsc.connection.destroyed
    /\ ~wsc.peerEnded
    /\ ~wsc.socketClosed
    /\ wsc' = [wsc EXCEPT !.connection = WsEnd(@), !.peerEnded = TRUE,
                          !.inbound = <<>>]
    /\ UNCHANGED <<qvars, cvars, dvars, codec, server>>

\* the socket's 'close' (_close)
WsSocketClosed ==
    /\ ~wsc.socketClosed
    /\ wsc' = [wsc EXCEPT !.connection = WsOnClose(@), !.socketClosed = TRUE,
                          !.inbound = <<>>]
    /\ UNCHANGED <<qvars, cvars, dvars, codec, server>>

\* the server side calls send, sendFrame, ping, pong or close
WsAppCall(call) ==
    /\ wsc.appCalls < MaxAppCalls
    /\ wsc' = [wsc EXCEPT !.connection = AppCall(@, call), !.appCalls = @ + 1]
    /\ UNCHANGED <<qvars, cvars, dvars, codec, server>>

NextW ==
    \/ \E n \in 1..24 : WsReceive(n)
    \/ WsPeerEnd
    \/ WsSocketClosed
    \/ \E call \in AppCalls : WsAppCall(call)

SpecW == InitW /\ [][NextW]_vars

-----------------------------------------------------------------------------
\* The upgraded connection (SpecW)

\* the number of bytes of the first k frames of a stream
RECURSIVE WireEnd(_, _)
WireEnd(stream, k) ==
    IF k = 0 THEN 0
    ELSE WireEnd(stream, k - 1) + Len(ClientFrame(stream[k]))

\* the number of bytes up to the end of the header of frame k
HeaderEnd(stream, k) == WireEnd(stream, k - 1) + Len(ClientHeader(stream[k]))

\* a control frame
IsControl(f) == f.opcode >= 8

\* a message is open when frame k arrives: the last data frame before it was
\* not final
RECURSIVE OpenBefore(_, _)
OpenBefore(stream, k) ==
    IF k = 1 THEN FALSE
    ELSE IF IsControl(stream[k - 1]) THEN OpenBefore(stream, k - 1)
    ELSE ~stream[k - 1].fin

\* the header of frame k is one of the six protocol violations
Violates(stream, k) ==
    LET f == stream[k]
    IN \/ IsControl(f) /\ (f.huge \/ f.len > 125)
       \/ IsControl(f) /\ ~f.fin
       \/ f.mask = <<>>
       \/ f.rsv # 0
       \/ ~IsControl(f) /\ f.opcode # 0 /\ OpenBefore(stream, k)
       \/ ~IsControl(f) /\ f.opcode = 0 /\ ~OpenBefore(stream, k)

\* frame k is refused or never ends: a violation, an unknown control opcode
\* or a payload of 2^32 bytes
Stops(stream, k) ==
    \/ Violates(stream, k)
    \/ IsControl(stream[k]) /\ stream[k].opcode \notin {8, 9, 10}
    \/ stream[k].huge

\* the frames before k are all taken
TakenBefore(stream, k) == \A j \in 1..(k - 1) : ~Stops(stream, j)

\* the places in the log where an event was emitted
EmitsOf(log, name) ==
    SelectSeq([i \in 1..Len(log) |-> i],
              LAMBDA i : log[i].kind = "emit" /\ log[i].name = name)

\* entry i of the log is a close frame
IsCloseFrame(log, i) ==
    /\ i <= Len(log)
    /\ log[i].kind = "frame"
    /\ log[i].header[1] = 128 + 8

\* a close frame was written before entry i of the log
ClosedBefore(log, i) == \E j \in 1..(i - 1) : IsCloseFrame(log, j)

\* the payloads of the data frames before frame k, one after the other
RECURSIVE DataBefore(_, _)
DataBefore(stream, k) ==
    IF k = 1 THEN <<>>
    ELSE DataBefore(stream, k - 1)
         \o (IF IsControl(stream[k - 1]) THEN <<>> ELSE stream[k - 1].payload)

\* the data of the message-part events of entries 1..n of the log
RECURSIVE PartsData(_, _)
PartsData(log, n) ==
    IF n = 0 THEN <<>>
    ELSE PartsData(log, n - 1)
         \o (IF log[n].kind = "emit" /\ log[n].name = "message-part"
             THEN log[n].arg.data ELSE <<>>)

\* the header of a violating frame k has arrived, after frames that were taken
ViolationArrived(k) ==
    /\ k \in 1..Len(wsc.stream)
    /\ Violates(wsc.stream, k)
    /\ TakenBefore(wsc.stream, k)
    /\ wsc.received >= HeaderEnd(wsc.stream, k)

\* the log tells of the refusal of frame k: the error event with status
\* 1002, the close frame with code 1002 (when one is due), the socket
\* destroyed, no message-part after the error, and before it the payloads of
\* the earlier frames only
RefusedAt(k, closeDue(_, _)) ==
    LET log == wsc.connection.log
        errors == EmitsOf(log, "error")
    IN /\ Len(errors) = 1
       /\ LET i == errors[1]
          IN /\ log[i].arg.status = 1002
             /\ IF closeDue(log, i)
                THEN /\ IsCloseFrame(log, i + 1)
                     /\ SubSeq(log[i + 1].payload, 1, 2) = <<3, 234>>
                     /\ Len(log) >= i + 2 /\ log[i + 2].kind = "destroy"
                ELSE Len(log) >= i + 1 /\ log[i + 1].kind = "destroy"
             /\ \A j \in (i + 1)..Len(log) :
                   ~(log[j].kind = "emit" /\ log[j].name = "message-part")
             /\ PartsData(log, i) = DataBefore(wsc.stream, k)
       /\ wsc.connection.destroyed

\* a close frame is always due
CloseAlwaysDue(log, i) == TRUE

\* a close frame is due unless one was written before
CloseDueOnce(log, i) == ~ClosedBefore(log, i)

\* C24: each of the six violations causes the error event with
\* status 1002, a close frame with code 1002 and the destruction of the
\* socket, and no message-part for the frame or any later byte.
C24_ViolationClosed1002 ==
    \A k \in DOMAIN wsc.stream : ViolationArrived(k) => RefusedAt(k, CloseAlwaysDue)

\* the ping frames among the first k frames
RECURSIVE CountOpcode(_, _, _)
CountOpcode(stream, k, opcode) ==
    IF k = 0 THEN 0
    ELSE CountOpcode(stream, k - 1, opcode)
         + (IF stream[k].opcode = opcode THEN 1 ELSE 0)

\* frame k with this opcode has arrived whole, after frames that were taken
CommandArrived(k, opcode) ==
    /\ k \in 1..Len(wsc.stream)
    /\ wsc.stream[k].opcode = opcode
    /\ ~Stops(wsc.stream, k)
    /\ TakenBefore(wsc.stream, k)
    /\ wsc.received >= WireEnd(wsc.stream, k)

\* the log tells of ping frame k: the ping event with the payload sent and,
\* when a pong is due, the pong frame with the same payload right after it
PingAnswered(k, pongDue(_, _)) ==
    LET log == wsc.connection.log
        pings == EmitsOf(log, "ping")
        n == CountOpcode(wsc.stream, k, 9)
    IN /\ Len(pings) >= n
       /\ LET i == pings[n]
          IN /\ log[i].arg.data = wsc.stream[k].payload
             /\ pongDue(log, i) =>
                   /\ Len(log) >= i + 1
                   /\ log[i + 1].kind = "frame"
                   /\ log[i + 1].header = <<128 + 10, Len(wsc.stream[k].payload)>>
                   /\ log[i + 1].payload = wsc.stream[k].payload

\* C25 as stated: a complete ping frame with payload P makes the connection
\* emit ping and write a pong frame with payload P before anything of a
\* following frame is processed.
C25_PingAlwaysAnswered ==
    \A k \in DOMAIN wsc.stream : CommandArrived(k, 9) => PingAnswered(k, CloseAlwaysDue)

\* C25: a complete ping frame with payload P makes the connection emit ping
\* and, unless it has written its close frame before, write a pong frame
\* with payload P before anything of a following frame is processed.
C25_PingAnswered ==
    \A k \in DOMAIN wsc.stream : CommandArrived(k, 9) => PingAnswered(k, CloseDueOnce)

\* a ping of five bytes was answered before the text frame after it gave
\* its message-part
C25_Witness ==
    /\ CommandArrived(1, 9)
    /\ PingAnswered(1, CloseAlwaysDue)
    /\ Len(wsc.stream[1].payload) = 5
    /\ \E j \in 1..Len(wsc.connection.log) :
          /\ j > EmitsOf(wsc.connection.log, "ping")[1] + 1
          /\ wsc.connection.log[j].kind = "emit"
          /\ wsc.connection.log[j].name = "message-part"

\* the 16-bit code of a close payload, 1005 when there are fewer than two
\* bytes
FrameCode(payload) ==
    IF Len(payload) >= 2 THEN payload[1] * 256 + payload[2] ELSE 1005

\* the log tells of close frame k: close-received with the code, then the
\* one close frame of the reply unless a close frame was written before, and
\* the socket ended
CloseAnswered(k, codeOf(_)) ==
    LET log == wsc.connection.log
        closes == EmitsOf(log, "close-received")
        n == CountOpcode(wsc.stream, k, 8)
    IN /\ Len(closes) >= n
       /\ LET i == closes[n]
          IN /\ log[i].arg.code = codeOf(wsc.stream[k].payload)
             /\ IF ClosedBefore(log, i)
                THEN Len(log) >= i + 1 /\ log[i + 1].kind = "end"
                ELSE /\ IsCloseFrame(log, i + 1)
                     /\ Len(log) >= i + 2 /\ log[i + 2].kind = "end"
       /\ wsc.connection.ended

\* at most one close frame is in the log
OneCloseFrame ==
    \A i, j \in 1..Len(wsc.connection.log) :
        IsCloseFrame(wsc.connection.log, i) /\ IsCloseFrame(wsc.connection.log, j)
        => i = j

\* C26: a close frame received is announced with its 16-bit code, or 1005
\* for a payload under two bytes, answered with exactly one close frame
\* unless one was sent before, and the socket is ended; no connection writes
\* more than one close frame.
C26_CloseAnswered ==
    /\ \A k \in DOMAIN wsc.stream : CommandArrived(k, 8) => CloseAnswered(k, FrameCode)
    /\ OneCloseFrame

\* C27: once the connection is closed, a call of send, sendFrame, ping, pong
\* or close writes nothing and raises nothing.
C27_ClosedWritesNothing ==
    [][(wsc.connection.closed /\ wsc'.appCalls = wsc.appCalls + 1)
         => wsc'.connection = wsc.connection]_vars

\* two calls were made after the reply to a close frame, and nothing was
\* written for them
C27_Witness ==
    /\ wsc.appCalls = 2
    /\ wsc.connection.closed
    /\ ~wsc.connection.err.thrown
    /\ Len(wsc.connection.log) = 3
    /\ wsc.connection.log[1].kind = "emit"
    /\ wsc.connection.log[1].name = "close-received"
    /\ IsCloseFrame(wsc.connection.log, 2)
    /\ wsc.connection.log[3].kind = "end"

-----------------------------------------------------------------------------
\* The upgrade handshake of a connection and the server's handlers

\* HTTP_HEADER_MAX_COUNT
HTTP_HEADER_MAX_COUNT == 32

\* HTTP_HEADER_MAX_VALUE_LENGTH
HTTP_HEADER_MAX_VALUE_LENGTH == 1024

\* the characters of the texts requests are made of: a JavaScript string is
\* the sequence of its characters
Chars(s) ==
    IF s = "GET" THEN <<"G", "E", "T">>
    ELSE IF s = "POST" THEN <<"P", "O", "S", "T">>
    ELSE IF s = "HTTP/1.1" THEN <<"H", "T", "T", "P", "/", "1", ".", "1">>
    ELSE IF s = "HTTP/1.0" THEN <<"H", "T", "T", "P", "/", "1", ".", "0">>
    ELSE IF s = "/p2/x" THEN <<"/", "p", "2", "/", "x">>
    ELSE IF s = "/x" THEN <<"/", "x">>
    ELSE IF s = "/p2/x#" THEN <<"/", "p", "2", "/", "x", "#">>
    ELSE IF s = "Connection" THEN <<"C", "o", "n", "n", "e", "c", "t", "i", "o", "n">>
    ELSE IF s = "Upgrade" THEN <<"U", "p", "g", "r", "a", "d", "e">>
    ELSE IF s = "Sec-WebSocket-Key" THEN <<"S", "e", "c", "-", "W", "e", "b", "S", "o", "c", "k", "e", "t", "-", "K", "e", "y">>
    ELSE IF s = "Sec-WebSocket-Version" THEN <<"S", "e", "c", "-", "W", "e", "b", "S", "o", "c", "k", "e", "t", "-", "V", "e", "r", "s", "i", "o", "n">>
    ELSE IF s = "Sec-WebSocket-Protocol" THEN <<"S", "e", "c", "-", "W", "e", "b", "S", "o", "c", "k", "e", "t", "-", "P", "r", "o", "t", "o", "c", "o", "l">>
    ELSE IF s = "Origin" THEN <<"O", "r", "i", "g", "i", "n">>
    ELSE IF s = "websocket" THEN <<"w", "e", "b", "s", "o", "c", "k", "e", "t">>
    ELSE IF s = "keep-alive" THEN <<"k", "e", "e", "p", "-", "a", "l", "i", "v", "e">>
    ELSE IF s = "k" THEN <<"k">>
    ELSE IF s = "13" THEN <<"1", "3">>
    ELSE IF s = "8" THEN <<"8">>
    ELSE IF s = "x" THEN <<"x">>
    ELSE IF s = "echo" THEN <<"e", "c", "h", "o">>
    ELSE IF s = "chat" THEN <<"c", "h", "a", "t">>
    ELSE IF s = "chat, echo" THEN <<"c", "h", "a", "t", ",", " ", "e", "c", "h", "o">>
    ELSE IF s = "https://a" THEN <<"h", "t", "t", "p", "s", ":", "/", "/", "a">>
    ELSE IF s = "https://b" THEN <<"h", "t", "t", "p", "s", ":", "/", "/", "b">>
    ELSE IF s = "A" THEN <<"A">>
    ELSE IF s = ": " THEN <<":", " ">>
    ELSE IF s = ":" THEN <<":">>
    ELSE IF s = ", " THEN <<",", " ">>
    ELSE <<>>

\* the characters REGEXP_HTTP_REQUEST allows in the URL
UrlChars ==
    { "a", "b", "c", "d", "e", "f", "g", "h", "i", "j", "k", "l", "m",
      "n", "o", "p", "q", "r", "s", "t", "u", "v", "w", "x", "y", "z",
      "A", "B", "C", "D", "E", "F", "G", "H", "I", "J", "K", "L", "M",
      "N", "O", "P", "Q", "R", "S", "T", "U", "V", "W", "X", "Y", "Z",
      "0", "1", "2", "3", "4", "5", "6", "7", "8", "9", "_", "\\", "/",
      ".", "?", "&", "%", "+", " ", "-", "=", "~" }

\* the text of a header value as the handlers compare it (an origin, a
\* protocol name)
Str(chars) ==
    IF chars = Chars("echo") THEN "echo"
    ELSE IF chars = Chars("chat") THEN "chat"
    ELSE IF chars = Chars("https://a") THEN "https://a"
    ELSE IF chars = Chars("https://b") THEN "https://b"
    ELSE IF chars = <<>> THEN ""
    ELSE "?"

\* b.indexOf(pair): the first place of the two characters, counted from 0, or -1
IndexOfPair(b, pair) ==
    LET places == {i \in 1..(Len(b) - 1) : b[i] = pair[1] /\ b[i + 1] = pair[2]}
    IN IF places = {} THEN -1
       ELSE (CHOOSE i \in places : \A j \in places : i <= j) - 1

\* str.split(', ')
RECURSIVE SplitPair(_, _)
SplitPair(str, pair) ==
    LET p == IndexOfPair(str, pair)
    IN IF p = -1 THEN <<str>>
       ELSE <<SubSeq(str, 1, p)>> \o SplitPair(Slice(str, p + 2), pair)

\* OnDemmandBuffer.add: the buffer is claimed when there is none
OnDemandAdd(b, data) ==
    IF b.buffer THEN BufferAdd(b, data)
    ELSE BufferAdd([b EXCEPT !.buffer = TRUE, !.bytes = <<>>], data)

\* readNextLine(buffer, d): the line up to the first CR LF of the buffered
\* bytes, or none and the error of a full buffer
ReadNextLine(buffer, d) ==
    LET existingBufferData == BufferSize(buffer)
        added == OnDemandAdd(buffer, d)
        end == IndexOfPair(added.bytes, <<"\r", "\n">>)
    IN IF end # -1
       THEN [consumed |-> end + 2 - existingBufferData, found |-> TRUE,
             line |-> SubSeq(added.bytes, 1, end), error |-> FALSE,
             buffer |-> BufferClear(added)]
       ELSE [consumed |-> 0, found |-> FALSE, line |-> <<>>,
             error |-> BufferSize(added) >= added.cap, buffer |-> added]

\* line.match(REGEXP_HTTP_REQUEST): 'GET ', characters of the URL, ' HTTP/1.1'
MatchesRequest(line) ==
    /\ Len(line) >= 13
    /\ SubSeq(line, 1, 4) = Chars("GET") \o <<" ">>
    /\ SubSeq(line, Len(line) - 8, Len(line)) = <<" ">> \o Chars("HTTP/1.1")
    /\ \A i \in 5..(Len(line) - 9) : line[i] \in UrlChars

\* match[1]
RequestURL(line) == SubSeq(line, 5, Len(line) - 9)

\* headers.has(key)
HeaderHas(headers, key) == \E i \in 1..Len(headers) : headers[i].key = key

\* headers.get(key), for a key the map has
HeaderGet(headers, key) ==
    headers[CHOOSE i \in 1..Len(headers) : headers[i].key = key].value

\* headers.get(key) || ''
HeaderOrEmpty(headers, key) ==
    IF HeaderHas(headers, key) THEN HeaderGet(headers, key) ELSE <<>>

\* headers.set(key, value)
HeaderSet(headers, key, value) ==
    IF HeaderHas(headers, key)
    THEN [i \in 1..Len(headers) |->
            IF headers[i].key = key THEN [key |-> key, value |-> value]
            ELSE headers[i]]
    ELSE Append(headers, [key |-> key, value |-> value])

\* the text is a decimal number
IsDecimal(chars) ==
    /\ chars # <<>>
    /\ \A i \in 1..Len(chars) : \E n \in 1..10 : Digits[n] = chars[i]

\* the value of a decimal number
RECURSIVE DecimalValue(_)
DecimalValue(chars) ==
    IF chars = <<>> THEN 0
    ELSE 10 * DecimalValue(SubSeq(chars, 1, Len(chars) - 1))
         + (CHOOSE n \in 1..10 : Digits[n] = chars[Len(chars)]) - 1

\* Number(text) < 13 for the version texts explored, short decimal numbers
\* and texts that are no number: NaN < 13 is false
NumberBelow13(chars) == IsDecimal(chars) /\ DecimalValue(chars) < 13

\* the headers as test reads them: the origin, when there is one
TestHeaders(headers) ==
    [name \in {n \in {"Origin"} : HeaderHas(headers, Chars(n))} |->
        Str(HeaderGet(headers, Chars(name)))]

\* the texts of the protocols requested
TestProtocols(requested) == [i \in 1..Len(requested) |-> Str(requested[i])]

\* _findTarget that asks every handler and uses the last choice
RECURSIVE FindTargetLast(_, _, _, _, _)
FindTargetLast(s, i, url, headers, protocols) ==
    IF i > Len(s.handlers)
    THEN [choice |-> NoChoice(0), handler |-> 0, s |-> s]
    ELSE LET later == FindTargetLast(
                         [s EXCEPT !.consulted = Append(@, i)], i + 1,
                         url, headers, protocols)
             result == Test(s.handlers[i], url, headers, protocols)
         IN IF later.handler # 0 \/ later.choice.status # 0 THEN later
            ELSE IF result.status # 0 \/ result.protocol # "none"
            THEN [choice |-> result, handler |-> i, s |-> later.s]
            ELSE later

\* _findTarget(url, headers, protocols), from handler i on: the handlers are
\* asked in the order of their registration, the first result that is not
\* null is returned, and an exception of test leaves the loop; consulted
\* lists the handlers asked
RECURSIVE FindTarget(_, _, _, _, _)
FindTarget(s, i, url, headers, protocols) ==
    IF i > Len(s.handlers)
    THEN [choice |-> NoChoice(0), handler |-> 0, s |-> s]
    ELSE LET Then(result) ==
                IF result.status # 0 \/ result.protocol # "none"
                THEN [choice |-> result, handler |-> i,
                      s |-> [s EXCEPT !.consulted = Append(@, i)]]
                ELSE FindTarget([s EXCEPT !.consulted = Append(@, i)], i + 1,
                                url, headers, protocols)
         IN Then(Test(s.handlers[i], url, headers, protocols))

\* the frames a chamber wrote for a peer go to its socket
RECURSIVE WriteAll(_, _)
WriteAll(w, frames) ==
    IF frames = <<>> THEN w
    ELSE WriteAll(WsSendFrame(w, Head(frames).opcode, Head(frames).data,
                              Head(frames).fin),
                  Tail(frames))

\* the connection with the exception e thrown
Throw(u, e) == [u EXCEPT !.w.err = e]

\* choice.acceptor(this) and what follows it in _completeHandshake: accept
\* of the handler chosen adds the connection (peer 1) to the chamber of the
\* url; then 'upgrade' is emitted and url and headers are dropped
Acceptor(u, handler, choice) ==
    LET Then(r) ==
            LET s == [u.s EXCEPT
                        !.handlers[handler] = r.halls,
                        !.accepted = Append(@, [handler |-> handler,
                                                url |-> choice.acceptor])]
            IN IF r.threw = "TooManyChambers"
               THEN [w |-> [u.w EXCEPT !.err = HttpError(1013, "Too many chambers")],
                     s |-> s]
               ELSE IF r.threw # "no"
               THEN [w |-> [u.w EXCEPT !.err = PlainError("TypeError")], s |-> s]
               ELSE [w |-> [Emit(WriteAll(u.w,
                                   Details(ChamberOf(r.halls, choice.acceptor), 1)
                                       .queue.connection.written),
                                 "upgrade", [protocol |-> choice.protocol])
                              EXCEPT !.url = NoURL, !.headers = <<>>],
                     s |-> s]
    IN Then(Accept(u.s.handlers[handler], choice.acceptor, 1, 0))

\* _completeHandshake: the upgrade headers are checked, the handlers asked,
\* 101 written, hasUpgraded set and the acceptor called
CompleteHandshake(u) ==
    LET headers == u.w.headers
        hWsProtocols == HeaderOrEmpty(headers, Chars("Sec-WebSocket-Protocol"))
        hWsVersion == IF HeaderOrEmpty(headers, Chars("Sec-WebSocket-Version")) = <<>>
                      THEN <<"0">>
                      ELSE HeaderGet(headers, Chars("Sec-WebSocket-Version"))
        requestedProtocols == IF hWsProtocols = <<>> THEN <<>>
                              ELSE SplitPair(hWsProtocols, Chars(", "))
        Resolved(found) ==
            IF found.choice.status # 0
            THEN [w |-> [u.w EXCEPT !.err =
                            HttpError(found.choice.status,
                                "Origin " \o OriginOf(TestHeaders(headers))
                                    \o " not permitted")],
                  s |-> found.s]
            ELSE IF found.choice.protocol = "none"
            THEN [w |-> [u.w EXCEPT !.err =
                            HttpError(404, "No handlers found for request")],
                  s |-> found.s]
            ELSE Acceptor(
                    [w |-> [u.w EXCEPT
                              !.buffer = BufferClear(@),
                              !.log = Append(@,
                                  [kind |-> "http", status |-> 101,
                                   statusText |-> "Switching Protocols",
                                   body |-> found.choice.protocol]),
                              !.hasUpgraded = TRUE],
                     s |-> found.s],
                    found.handler, found.choice)
    IN IF HeaderOrEmpty(headers, Chars("Connection")) # Chars("Upgrade")
          \/ HeaderOrEmpty(headers, Chars("Upgrade")) # Chars("websocket")
       THEN Throw(u, HttpError(400, "Must Upgrade connection to websocket"))
       ELSE IF HeaderOrEmpty(headers, Chars("Sec-WebSocket-Key")) = <<>>
       THEN Throw(u, HttpError(400, "Missing Sec-WebSocket-Key header"))
       ELSE IF NumberBelow13(hWsVersion)
       THEN Throw(u, HttpError(400, "Unsupported Sec-WebSocket-Version"))
       ELSE Resolved(FindTarget(u.s, 1, u.w.url, TestHeaders(headers),
                                TestProtocols(requestedProtocols)))

\* a header line of _handshakeData: the key and the value around the first
\* ': ', a repeated key's values joined with ', '
AddHeaderLine(u, line) ==
    LET p == IndexOfPair(line, Chars(": "))
        key == SubSeq(line, 1, p)
        headers == u.w.headers
        value == IF HeaderHas(headers, key)
                 THEN HeaderGet(headers, key) \o Chars(", ") \o Slice(line, p + 2)
                 ELSE Slice(line, p + 2)
    IN IF p = -1
       THEN Throw(u, HttpError(400, "Invalid header"))
       ELSE IF ~HeaderHas(headers, key) /\ Len(headers) >= HTTP_HEADER_MAX_COUNT
       THEN Throw(u, HttpError(400, "Too many headers"))
       ELSE IF Len(value) > HTTP_HEADER_MAX_VALUE_LENGTH
       THEN Throw(u, HttpError(400, "Header value too long"))
       ELSE [u EXCEPT !.w.headers = HeaderSet(@, key, value)]

\* the loop of _handshakeData over the lines of d; what follows the empty
\* line in d is not read
RECURSIVE HandshakeLoop(_, _, _)
HandshakeLoop(u, d, offset) ==
    IF offset >= Len(d) THEN u
    ELSE LET Then(r) ==
                LET read == [u EXCEPT !.w.buffer = r.buffer]
                    After(next) == IF next.w.err.thrown THEN next
                                   ELSE HandshakeLoop(next, d, offset + r.consumed)
                IN IF r.error
                   THEN Throw(read, HttpError(400, "Header too long"))
                   ELSE IF ~r.found THEN read
                   ELSE IF read.w.url = NoURL
                   THEN IF ~MatchesRequest(r.line)
                        THEN Throw(read, HttpError(400, "Invalid URL"))
                        ELSE HandshakeLoop(
                                [read EXCEPT !.w.url = RequestURL(r.line)],
                                d, offset + r.consumed)
                   ELSE IF r.line = <<>>
                   THEN CompleteHandshake(read)
                   ELSE After(AddHeaderLine(read, r.line))
         IN Then(ReadNextLine(u.w.buffer, Slice(d, offset)))

\* _handshakeData(d): nothing when closed; an exception goes to error(e)
HandshakeData(u, d) ==
    LET Then(r) == IF r.w.err.thrown
                   THEN [r EXCEPT !.w = WsError([@ EXCEPT !.err = NoError], r.w.err)]
                   ELSE r
    IN IF u.w.closed THEN u ELSE Then(HandshakeLoop(u, d, 0))

-----------------------------------------------------------------------------
\* SpecU: one connection sends its upgrade request, in chunks, to a server
\* with the two handlers of bin/server.js

\* a header line of a request: the key (with a number after it when n > 0),
\* the separator, the value, and pad more characters of value
Header(key, value) == [key |-> key, n |-> 0, sep |-> ": ", value |-> value, pad |-> 0]

\* a request: the request line, the header lines, and the empty line when
\* the request is complete
Request(path, headers) ==
    [method |-> "GET", path |-> path, version |-> "HTTP/1.1", headers |-> headers,
     blank |-> TRUE]

\* the headers of an upgrade to the protocol echo
UpgradeHeaders ==
    << Header("Connection", "Upgrade"), Header("Upgrade", "websocket"),
       Header("Sec-WebSocket-Key", "k"), Header("Sec-WebSocket-Version", "13"),
       Header("Sec-WebSocket-Protocol", "echo") >>

\* the headers with the header of one key replaced
WithHeader(headers, key, value) ==
    [i \in 1..Len(headers) |->
        IF headers[i].key = key THEN Header(key, value) ELSE headers[i]]

\* the headers without the header of one key
WithoutHeader(headers, key) == SelectSeq(headers, LAMBDA h : h.key # key)

\* the requests clients send
Requests ==
    { \* upgrades: to the first handler, to the second, with two protocols
      Request("/p2/x", UpgradeHeaders \o <<Header("Origin", "https://a")>>),
      Request("/x", UpgradeHeaders),
      Request("/x", WithHeader(UpgradeHeaders, "Sec-WebSocket-Protocol", "chat, echo")
                    \o <<Header("Origin", "https://a")>>),
      \* another protocol, no protocol, another origin, a URL no handler has
      Request("/p2/x", WithHeader(UpgradeHeaders, "Sec-WebSocket-Protocol", "chat")),
      Request("/x", WithoutHeader(UpgradeHeaders, "Sec-WebSocket-Protocol")),
      Request("/p2/x", UpgradeHeaders \o <<Header("Origin", "https://b")>>),
      Request("", UpgradeHeaders \o <<Header("Origin", "https://a")>>),
      \* request lines that are not 'GET <url> HTTP/1.1'
      [Request("/x", UpgradeHeaders) EXCEPT !.method = "POST"],
      [Request("/x", UpgradeHeaders) EXCEPT !.version = "HTTP/1.0"],
      Request("/p2/x#", UpgradeHeaders),
      \* a header line without ': '
      Request("/x", [UpgradeHeaders EXCEPT ![3].sep = ":"]),
      \* upgrade headers missing or different
      Request("/x", WithHeader(UpgradeHeaders, "Connection", "keep-alive")),
      Request("/x", UpgradeHeaders \o <<Header("Connection", "Upgrade")>>),
      Request("/x", WithoutHeader(UpgradeHeaders, "Upgrade")),
      Request("/x", WithoutHeader(UpgradeHeaders, "Sec-WebSocket-Key")),
      Request("/x", WithHeader(UpgradeHeaders, "Sec-WebSocket-Key", "")),
      Request("/x", WithHeader(UpgradeHeaders, "Sec-WebSocket-Version", "8")),
      Request("/x", WithoutHeader(UpgradeHeaders, "Sec-WebSocket-Version")),
      Request("/x", WithHeader(UpgradeHeaders, "Sec-WebSocket-Version", "x")),
      \* 33 headers, a value of 1202 characters, a line of 1033 characters
      Request("/x", UpgradeHeaders
                    \o [i \in 1..28 |-> [Header("x", "k") EXCEPT !.n = i, !.pad = 10]]),
      Request("/x", << [Header("A", "") EXCEPT !.pad = 600],
                       [Header("A", "") EXCEPT !.pad = 600] >> \o UpgradeHeaders),
      Request("/x", << [Header("A", "") EXCEPT !.pad = 1030] >> \o UpgradeHeaders),
      \* a request without its empty line
      [Request("/x", UpgradeHeaders) EXCEPT !.blank = FALSE] }

\* the characters of a header line
HeaderText(h) ==
    Chars(h.key) \o (IF h.n > 0 THEN IdString(h.n) ELSE <<>>) \o Chars(h.sep)
    \o Chars(h.value) \o [i \in 1..h.pad |-> "x"] \o <<"\r", "\n">>

\* the characters of the header lines
RECURSIVE HeadersText(_)
HeadersText(headers) ==
    IF headers = <<>> THEN <<>>
    ELSE HeaderText(Head(headers)) \o HeadersText(Tail(headers))

\* the characters of a request
RequestText(q) ==
    Chars(q.method) \o <<" ">> \o Chars(q.path) \o <<" ">> \o Chars(q.version)
    \o <<"\r", "\n">> \o HeadersText(q.headers)
    \o (IF q.blank THEN <<"\r", "\n">> ELSE <<>>)

\* the limits of the two-peer chambers and of the others, scaled down
TwoPeerLimits(maxChambers) ==
    [MAX_QUEUE_ITEMS |-> 0, MAX_QUEUE_DATA |-> 0, HEADERS_MAX_LENGTH |-> 4,
     MAX_CHAMBERS |-> maxChambers]

ManyPeerLimits(maxChambers) ==
    [MAX_QUEUE_ITEMS |-> 1, MAX_QUEUE_DATA |-> 1, HEADERS_MAX_LENGTH |-> 4,
     MAX_CHAMBERS |-> maxChambers]

\* the handlers in the order of addHandler: the two-peer chambers below /p2/,
\* then the chambers below /; both with the origins of the command line
HandlerChoices ==
    { << NewHalls(<<"/", "p", "2", "/">>, <<>>, TwoPeerLimits(1)),
         NewHalls(<<"/">>, <<>>, ManyPeerLimits(1)) >>,
      << NewHalls(<<"/", "p", "2", "/">>, <<"https://a">>, TwoPeerLimits(1)),
         NewHalls(<<"/">>, <<"https://a">>, ManyPeerLimits(1)) >>,
      << NewHalls(<<"/", "p", "2", "/">>, <<>>, TwoPeerLimits(0)),
         NewHalls(<<"/">>, <<>>, ManyPeerLimits(0)) >> }

\* the most characters of a request that arrive in one chunk
MaxChunk == 200

\* the sizes of the chunks a request arrives in (and all that is left, up
\* to MaxChunk)
ChunkSizes == {1, 2, 3, 5, 16, 64, MaxChunk}

InitU ==
    /\ QueueIdle
    /\ ChamberIdle
    /\ DirectoryIdle
    /\ codec = <<>>
    /\ \E q \in Requests :
          wsc = [connection |-> NewWebSocketConnection, request |-> q,
                 inbound |-> RequestText(q), received |-> 0,
                 peerEnded |-> FALSE, socketClosed |-> FALSE]
    /\ \E handlers \in HandlerChoices :
          server = [handlers |-> handlers, consulted |-> <<>>, accepted |-> <<>>]

\* the socket's 'data' before the upgrade: the next n characters of the
\* request arrive (_handshakeData)
UReceive(n) ==
    /\ ~wsc.connection.destroyed
    /\ ~wsc.connection.hasUpgraded
    /\ ~wsc.peerEnded
    /\ ~wsc.socketClosed
    /\ n <= Len(wsc.inbound)
    /\ n <= MaxChunk
    /\ \E u \in {HandshakeData([w |-> wsc.connection, s |-> server],
                               SubSeq(wsc.inbound, 1, n))} :
          /\ wsc' = [wsc EXCEPT !.connection = u.w, !.inbound = Slice(@, n),
                                !.received = @ + n]
          /\ server' = u.s
    /\ UNCHANGED <<qvars, cvars, dvars, codec>>

\* the socket's 'end' before the upgrade (_end)
UPeerEnd ==
    /\ ~wsc.connection.destroyed
    /\ ~wsc.connection.hasUpgraded
    /\ ~wsc.peerEnded
    /\ ~wsc.socketClosed
    /\ wsc' = [wsc EXCEPT !.connection = WsEnd(@), !.peerEnded = TRUE,
                          !.inbound = <<>>]
    /\ UNCHANGED <<qvars, cvars, dvars, codec, server>>

\* the socket's 'close' before the upgrade (_close)
USocketClosed ==
    /\ ~wsc.connection.hasUpgraded
    /\ ~wsc.socketClosed
    /\ wsc' = [wsc EXCEPT !.connection = WsOnClose(@), !.socketClosed = TRUE,
                          !.inbound = <<>>]
    /\ UNCHANGED <<qvars, cvars, dvars, codec, server>>

NextU ==
    \/ \E n \in ChunkSizes : UReceive(n)
    \/ UReceive(Len(wsc.inbound))
    \/ UPeerEnd
    \/ USocketClosed

SpecU == InitU /\ [][NextU]_vars

-----------------------------------------------------------------------------
\* The upgrade handshake (SpecU)

\* the request sends a header with this key and value
Sends(q, key, value) ==
    \E i \in 1..Len(q.headers) :
        /\ q.headers[i].key = key /\ q.headers[i].n = 0
        /\ q.headers[i].value = value /\ q.headers[i].pad = 0

\* the header lines of a key
NumberSent(q, key) ==
    Len(SelectSeq(q.headers, LAMBDA h : h.key = key /\ h.n = 0))

\* the value sent for a key, '' when there is none
ValueSent(q, key) ==
    IF NumberSent(q, key) = 0 THEN ""
    ELSE SelectSeq(q.headers, LAMBDA h : h.key = key /\ h.n = 0)[1].value

\* the number of characters of the request up to the end of header line k
LinesEnd(q, k) ==
    Len(RequestText([q EXCEPT !.headers = SubSeq(q.headers, 1, k),
                              !.blank = FALSE]))

\* the whole request has arrived
AllReceived == wsc.received = Len(RequestText(wsc.request))

\* the request line is 'GET <url> HTTP/1.1'
ValidRequestLine(q) ==
    /\ q.method = "GET"
    /\ q.version = "HTTP/1.1"
    /\ q.path \in {"/p2/x", "/x", ""}

\* every header line is 'key: value'
ValidHeaderLines(q) == \A i \in 1..Len(q.headers) : q.headers[i].sep = ": "

\* the version sent is a number of at least 13
VersionAtLeast13(q) == ValueSent(q, "Sec-WebSocket-Version") \in {"13"}

\* the version sent is a number below 13, or none is sent
VersionBelow13(q) == ValueSent(q, "Sec-WebSocket-Version") \in {"", "8"}

\* the handler that takes the request: the first whose base URL begins the
\* path, when the protocol echo is asked for; 0 when no handler does
ExpectedHandler(q) ==
    IF ValueSent(q, "Sec-WebSocket-Protocol") \notin {"echo", "chat, echo"} THEN 0
    ELSE IF q.path = "/p2/x" THEN 1
    ELSE IF q.path = "/x" THEN 2
    ELSE 0

\* the handler permits the origin of the request
OriginAllowed(q, handler) ==
    \/ server.handlers[handler].permittedOrigins = <<>>
    \/ Includes(server.handlers[handler].permittedOrigins, ValueSent(q, "Origin"))

\* a response with this status is in the log
Responded(status) ==
    \E i \in 1..Len(wsc.connection.log) :
        /\ wsc.connection.log[i].kind = "http"
        /\ wsc.connection.log[i].status = status

\* the connection is in the Upgraded state, or on its way into it
Upgraded ==
    \/ Responded(101)
    \/ wsc.connection.hasUpgraded
    \/ server.accepted # <<>>

\* C21: the handlers are asked in the order of their registration up to the
\* first that takes the request, which is the one used; the handlers after
\* it are not asked; when all return null the request is answered with 404.
C21_FirstMatch ==
    server.consulted # <<>> =>
        LET k == ExpectedHandler(wsc.request)
        IN IF k = 0
           THEN /\ server.consulted = [i \in 1..Len(server.handlers) |-> i]
                /\ server.accepted = <<>>
                /\ Responded(404)
           ELSE /\ server.consulted = [i \in 1..k |-> i]
                /\ IF OriginAllowed(wsc.request, k)
                   THEN /\ Len(server.accepted) = 1
                        /\ server.accepted[1].handler = k
                        /\ server.accepted[1].url = Chars(wsc.request.path)
                        /\ Responded(101)
                   ELSE server.accepted = <<>> /\ Responded(403)

\* a request below / was given to the second handler after the first
\* returned null
C21_Witness ==
    /\ server.consulted = <<1, 2>>
    /\ Len(server.accepted) = 1
    /\ server.accepted[1].handler = 2
    /\ wsc.request.path = "/x"

\* C22: the connection is upgraded (101 written, hasUpgraded, acceptor
\* called) only after the whole of a request with a valid request line,
\* valid header lines and the empty line, with Connection 'Upgrade', Upgrade
\* 'websocket', a key, a version of at least 13 and a handler for it; the
\* acceptor is called in no other case, and only with 101 written.
C22_UpgradedOnlyIfValid ==
    /\ Upgraded =>
          /\ ValidRequestLine(wsc.request)
          /\ ValidHeaderLines(wsc.request)
          /\ wsc.request.blank /\ AllReceived
          /\ Sends(wsc.request, "Connection", "Upgrade")
          /\ Sends(wsc.request, "Upgrade", "websocket")
          /\ ValueSent(wsc.request, "Sec-WebSocket-Key") # ""
          /\ VersionAtLeast13(wsc.request)
          /\ ExpectedHandler(wsc.request) # 0
          /\ OriginAllowed(wsc.request, ExpectedHandler(wsc.request))
    /\ server.accepted # <<>> => Responded(101) /\ wsc.connection.hasUpgraded

\* where the request fails before the upgrade and with which status; status
\* 0 for a request that does not fail
Failure(q) ==
    LET longLine == {i \in 1..Len(q.headers) : q.headers[i].pad >= 1024}
        badLine == {i \in 1..Len(q.headers) : q.headers[i].sep # ": "}
    IN IF ~ValidRequestLine(q)
       THEN [status |-> 400, at |-> LinesEnd(q, 0)]
       ELSE IF longLine # {}
       THEN [status |-> 400,
             at |-> LinesEnd(q, (CHOOSE i \in longLine : TRUE) - 1) + 1024]
       ELSE IF badLine # {}
       THEN [status |-> 400, at |-> LinesEnd(q, CHOOSE i \in badLine : TRUE)]
       ELSE IF Len(q.headers) > 32
       THEN [status |-> 400, at |-> LinesEnd(q, 33)]
       ELSE IF NumberSent(q, "A") = 2
       THEN [status |-> 400, at |-> LinesEnd(q, 2)]
       ELSE IF ~q.blank
       THEN [status |-> 0, at |-> 0]
       ELSE IF \/ NumberSent(q, "Connection") # 1
               \/ ~Sends(q, "Connection", "Upgrade")
               \/ ~Sends(q, "Upgrade", "websocket")
               \/ ValueSent(q, "Sec-WebSocket-Key") = ""
               \/ VersionBelow13(q)
       THEN [status |-> 400, at |-> Len(RequestText(q))]
       ELSE IF ExpectedHandler(q) = 0
       THEN [status |-> 404, at |-> Len(RequestText(q))]
       ELSE IF ~OriginAllowed(q, ExpectedHandler(q))
       THEN [status |-> 403, at |-> Len(RequestText(q))]
       ELSE [status |-> 0, at |-> 0]

\* no chamber has a peer
NoneJoined ==
    \A i \in 1..Len(server.handlers) : server.handlers[i].chambers = <<>>

\* the log tells of a refusal over HTTP: the error event, the response with
\* its status, the socket destroyed, and neither 101 nor a frame
RefusedOverHTTP ==
    LET log == wsc.connection.log
        errors == EmitsOf(log, "error")
    IN /\ Len(errors) = 1
       /\ LET i == errors[1]
          IN /\ log[i].arg.status \in {400, 403, 404, 500}
             /\ Len(log) >= i + 2
             /\ log[i + 1].kind = "http"
             /\ log[i + 1].status = log[i].arg.status
             /\ log[i + 2].kind = "destroy"
       /\ wsc.connection.destroyed
       /\ ~Responded(101)
       /\ \A j \in 1..Len(log) : log[j].kind # "frame"
       /\ ~wsc.connection.hasUpgraded
       /\ server.accepted = <<>>
       /\ NoneJoined

\* C23: a failure before the upgrade is answered with the HTTP response of
\* its status, 400, 403, 404 or 500, and the socket is destroyed; no 101 and
\* no frame is written and the connection joins no chamber.
C23_FailureAnsweredOverHTTP ==
    /\ (Failure(wsc.request).status # 0
        /\ wsc.received >= Failure(wsc.request).at)
       => /\ RefusedOverHTTP
          /\ Responded(Failure(wsc.request).status)
    /\ (~wsc.connection.hasUpgraded
        /\ EmitsOf(wsc.connection.log, "error") # <<>>)
       => RefusedOverHTTP

\* a request of another origin was refused with 403
C23_Witness ==
    /\ Failure(wsc.request).status = 403
    /\ AllReceived
    /\ RefusedOverHTTP
    /\ Responded(403)

-----------------------------------------------------------------------------
\* WebSocketServer: listen, the connections accepted, and close (SpecS)

STATE_READY == 0

STATE_STARTING == 1

STATE_RUNNING == 2

STATE_STOPPING == 3

\* SpecS: the connections the server accepts
MaxConnections == 2

\* SpecS: the calls of listen that start the server
MaxListens == 2

\* a connection in no chamber
NoRoom == [handler |-> 0, url |-> <<>>]

\* new WebSocketServer() with the handlers of bin/server.js added; conns
\* holds every connection ever accepted with the state of its socket,
\* connections the ids in this.connections, events what the server did,
\* thrown the last exception of listen or close
NewWebSocketServer(handlers) ==
    [state |-> STATE_READY, phase |-> "idle", listens |-> 0,
     handlers |-> handlers, consulted |-> <<>>, accepted |-> <<>>,
     connections |-> {}, conns |-> <<>>, events |-> <<>>, thrown |-> ""]

\* h.begin(env) or h.close(env) of every handler, in their order
HandlerCalls(s, name) == [i \in 1..Len(s.handlers) |-> <<name, i>>]

\* the loop of close over this.connections without the connections that
\* have not upgraded
ShutDownUpgraded(conns, ids) ==
    [id \in 1..Len(conns) |->
        IF id \in ids /\ conns[id].w.hasUpgraded
        THEN [conns[id] EXCEPT !.w = WsClose(@, 1001, "Shutting down")]
        ELSE conns[id]]

\* the loop of close over this.connections:
\* connection.close(1001, 'Shutting down')
ShutDownConnections(conns, ids) ==
    [id \in 1..Len(conns) |->
        IF id \in ids
        THEN [conns[id] EXCEPT !.w = WsClose(@, 1001, "Shutting down")]
        ELSE conns[id]]

\* the request connection id upgrades with: each connection has a chamber
\* of its own, and a third connection has none
UpgradeOf(id) ==
    IF id = 1 THEN Request("/p2/x", UpgradeHeaders)
    ELSE IF id = 2 THEN Request("/x", UpgradeHeaders)
    ELSE Request("", UpgradeHeaders)

\* the requests connection id may send: its upgrade, or a POST
RequestsOf(id) ==
    {UpgradeOf(id), [Request("/x", UpgradeHeaders) EXCEPT !.method = "POST"]}

\* the frames an upgraded client may send: a close frame
FramesOf == { << Frame(TRUE, 0, 8, ClientMask, <<>>) >> }

InitS ==
    /\ QueueIdle
    /\ ChamberIdle
    /\ DirectoryIdle
    /\ codec = <<>>
    /\ wsc = <<>>
    /\ server = NewWebSocketServer(
                    << NewHalls(<<"/", "p", "2", "/">>, <<>>, TwoPeerLimits(1)),
                       NewHalls(<<"/">>, <<>>, ManyPeerLimits(1)) >>)

\* listen(port, hostname): throws unless READY; else STARTING and begin of
\* every handler
SListen ==
    /\ server.listens < MaxListens
    /\ server' =
          IF server.state # STATE_READY
          THEN [server EXCEPT !.thrown = "Already listening"]
          ELSE [server EXCEPT !.listens = @ + 1,
                              !.state = STATE_STARTING,
                              !.events = @ \o HandlerCalls(server, "begin")]
    /\ UNCHANGED <<qvars, cvars, dvars, codec, wsc>>

\* the callback of this.server.listen (the 'listening' listener, which is
\* called without an argument): RUNNING
SListening ==
    /\ server.state = STATE_STARTING
    /\ server' = [server EXCEPT !.state = STATE_RUNNING,
                                !.events = Append(@, <<"listening">>)]
    /\ UNCHANGED <<qvars, cvars, dvars, codec, wsc>>

\* _handleConnection(socket): the accept socket takes a connection while it
\* listens; the connection is added to this.connections
SConnect ==
    /\ server.state = STATE_RUNNING
    /\ Len(server.conns) < MaxConnections
    /\ server' = [server EXCEPT
                    !.conns = Append(@, [w |-> NewWebSocketConnection,
                                         room |-> NoRoom, socket |-> "open",
                                         asked |-> FALSE, sent |-> FALSE]),
                    !.connections = @ \union {Len(server.conns) + 1}]
    /\ UNCHANGED <<qvars, cvars, dvars, codec, wsc>>

\* the socket's 'data' before the upgrade: the whole request of connection
\* id arrives (_handshakeData)
SRequest(id, q) ==
    /\ server.conns[id].socket = "open"
    /\ ~server.conns[id].w.destroyed
    /\ ~server.conns[id].w.hasUpgraded
    /\ ~server.conns[id].asked
    /\ \E u \in {HandshakeData([w |-> server.conns[id].w, s |-> server],
                               RequestText(q))} :
          server' = [u.s EXCEPT
                        !.conns[id].w = u.w,
                        !.conns[id].asked = TRUE,
                        !.conns[id].room =
                            IF Len(u.s.accepted) > Len(server.accepted)
                            THEN u.s.accepted[Len(u.s.accepted)]
                            ELSE NoRoom]
    /\ UNCHANGED <<qvars, cvars, dvars, codec, wsc>>

\* the socket's 'data' after the upgrade: frames of the client arrive (_data)
SFrames(id, frames) ==
    /\ server.conns[id].socket = "open"
    /\ ~server.conns[id].w.destroyed
    /\ server.conns[id].w.hasUpgraded
    /\ ~server.conns[id].sent
    /\ server' = [server EXCEPT
                    !.conns[id].w = WsData(@, ClientBytes(frames)),
                    !.conns[id].sent = TRUE]
    /\ UNCHANGED <<qvars, cvars, dvars, codec, wsc>>

\* the socket's 'end' (_end)
SPeerEnd(id) ==
    /\ server.conns[id].socket = "open"
    /\ ~server.conns[id].w.destroyed
    /\ EmitsOf(server.conns[id].w.log, "end") = <<>>
    /\ server' = [server EXCEPT !.conns[id].w = WsEnd(@)]
    /\ UNCHANGED <<qvars, cvars, dvars, codec, wsc>>

\* the handlers once the chamber of a closed connection has removed it
LeaveRoom(handlers, room) ==
    IF room.handler = 0 \/ ~HasChamber(handlers[room.handler], room.url)
    THEN handlers
    ELSE [handlers EXCEPT ![room.handler] =
            CloseChamber(@, room.url,
                ChamberRemove([ChamberOf(@, room.url) EXCEPT
                    !.details[1].queue.connection.closed = TRUE], 1)).halls]

\* the socket's 'close' (_close): the connection emits 'close', on which
\* the server deletes it from this.connections and its chamber removes it
SSocketClosed(id) ==
    /\ server.conns[id].socket = "open"
    /\ server' = [server EXCEPT
                    !.conns[id].w = WsOnClose(@),
                    !.conns[id].socket = "closed",
                    !.connections = @ \ {id},
                    !.handlers = LeaveRoom(@, server.conns[id].room)]
    /\ UNCHANGED <<qvars, cvars, dvars, codec, wsc>>

\* close(): resolves when READY, throws when STARTING or STOPPING; else
\* STOPPING, close(1001, 'Shutting down') on every connection of
\* this.connections, and this.server.close(callback)
SClose ==
    /\ server' =
          IF server.state = STATE_READY
          THEN server
          ELSE IF server.state = STATE_STARTING
          THEN [server EXCEPT !.thrown = "Still starting up"]
          ELSE IF server.state = STATE_STOPPING
          THEN [server EXCEPT !.thrown = "Already stopping"]
          ELSE [server EXCEPT
                  !.state = STATE_STOPPING,
                  !.phase = "net",
                  !.conns = ShutDownConnections(@, server.connections),
                  !.events = Append(@, <<"closing">>)]
    /\ UNCHANGED <<qvars, cvars, dvars, codec, wsc>>

\* the callback of this.server.close: the accept socket is closed, which
\* net.Server reports once every connection it accepted has closed
SNetClosed ==
    /\ server.phase = "net"
    /\ \A id \in 1..Len(server.conns) : server.conns[id].socket = "closed"
    /\ server' = [server EXCEPT !.phase = "handlers",
                                !.events = Append(@, <<"net closed">>)]
    /\ UNCHANGED <<qvars, cvars, dvars, codec, wsc>>

\* then: h.close(env) of every handler
SHandlersClose ==
    /\ server.phase = "handlers"
    /\ server' = [server EXCEPT !.phase = "done",
                                !.events = @ \o HandlerCalls(server, "close")]
    /\ UNCHANGED <<qvars, cvars, dvars, codec, wsc>>

\* then: READY, and 'shutdown' is emitted
SShutdown ==
    /\ server.phase = "done"
    /\ server' = [server EXCEPT !.phase = "idle", !.state = STATE_READY,
                                !.events = Append(@, <<"shutdown">>)]
    /\ UNCHANGED <<qvars, cvars, dvars, codec, wsc>>

NextS ==
    \/ SListen
    \/ SListening
    \/ SConnect
    \/ \E id \in 1..Len(server.conns) : \E q \in RequestsOf(id) : SRequest(id, q)
    \/ \E id \in 1..Len(server.conns) : \E frames \in FramesOf : SFrames(id, frames)
    \/ \E id \in 1..Len(server.conns) : SPeerEnd(id)
    \/ \E id \in 1..Len(server.conns) : SSocketClosed(id)
    \/ SClose
    \/ SNetClosed
    \/ SHandlersClose
    \/ SShutdown

SpecS == InitS /\ [][NextS]_vars

\* the connections that are live: accepted, and their socket has not
\* emitted close
Live(s) ==
    {id \in 1..Len(s.conns) : EmitsOf(s.conns[id].w.log, "close") = <<>>}

\* the last entry of the log is the close frame 1001 'Shutting down'
EndsWithShutdownFrame(log) ==
    /\ log # <<>>
    /\ IsCloseFrame(log, Len(log))
    /\ log[Len(log)].header = <<136, 15>>
    /\ log[Len(log)].payload = <<3, 233>> \o Utf8("Shutting down")

\* the step of close() that shuts a running server down
ShutdownStep ==
    server.state = STATE_RUNNING /\ server'.state = STATE_STOPPING

\* the step by which the accept socket is closed
NetClosedStep ==
    /\ Len(server'.events) = Len(server.events) + 1
    /\ server'.events[Len(server'.events)] = <<"net closed">>

\* the events of a shutdown, in their order: the accept socket closed, every
\* handler's close, the shutdown
ShutdownEnd(s) ==
    << <<"net closed">> >> \o [i \in 1..Len(s.handlers) |-> <<"close", i>>]
        \o << <<"shutdown">> >>

\* the server returns to READY only after the accept socket has closed and
\* every handler's close has completed
ReadyAfterShutdown ==
    (server.state = STATE_STOPPING /\ server'.state = STATE_READY)
    => /\ Len(server'.events) >= Len(ShutdownEnd(server))
       /\ SubSeq(server'.events,
                 Len(server'.events) - Len(ShutdownEnd(server)) + 1,
                 Len(server'.events)) = ShutdownEnd(server)

\* the accept socket closes only during a shutdown, after its close frames
ClosedAfterFrames ==
    NetClosedStep
    => /\ server.state = STATE_STOPPING
       /\ server.events[Len(server.events)] = <<"closing">>

\* this.connections is the set of the live connections
LiveSetExact == server'.connections = Live(server')

\* C29 as stated: at the shutdown every live connection is sent the close
\* frame 1001 'Shutting down' before the accept socket is closed; READY
\* returns only after the accept socket has closed and every handler's close
\* has completed; this.connections holds exactly the accepted connections
\* whose socket has not emitted close.
C29_ShutdownClosesAllLive ==
    [][/\ ShutdownStep =>
            \A id \in Live(server) :
                /\ Len(server'.conns[id].w.log) = Len(server.conns[id].w.log) + 1
                /\ EndsWithShutdownFrame(server'.conns[id].w.log)
       /\ ClosedAfterFrames
       /\ ReadyAfterShutdown
       /\ LiveSetExact]_vars

\* C29 amended: at the shutdown every live connection that is not closed
\* already is sent the close frame 1001 'Shutting down' before the accept
\* socket is closed, and a live connection that is closed is sent nothing;
\* READY returns only after the accept socket has closed and every handler's
\* close has completed; this.connections holds exactly the accepted
\* connections whose socket has not emitted close.
C29_ShutdownClosesOpenLive ==
    [][/\ ShutdownStep =>
            \A id \in Live(server) :
                IF server.conns[id].w.closed
                THEN server'.conns[id] = server.conns[id]
                ELSE /\ Len(server'.conns[id].w.log)
                            = Len(server.conns[id].w.log) + 1
                     /\ EndsWithShutdownFrame(server'.conns[id].w.log)
                     /\ server'.conns[id].w.closed
       /\ ClosedAfterFrames
       /\ ReadyAfterShutdown
       /\ LiveSetExact]_vars

\* a server is READY again after a shutdown that sent its close frame to a
\* connection that had not upgraded and to an upgraded one
C29_Witness ==
    /\ server.state = STATE_READY
    /\ server.events # <<>>
    /\ server.events[Len(server.events)] = <<"shutdown">>
    /\ Len(server.conns) = 2
    /\ EndsWithShutdownFrame(SubSeq(server.conns[1].w.log, 1,
                                    Len(server.conns[1].w.log) - 1))
    /\ server.conns[1].w.hasUpgraded
    /\ ~server.conns[2].w.hasUpgraded
    /\ \E i \in 1..Len(server.conns[2].w.log) :
          EndsWithShutdownFrame(SubSeq(server.conns[2].w.log, 1, i))

-----------------------------------------------------------------------------
\* SpecP: the payloads of a client's frames, in chunks that end anywhere in
\* a header and near the ends of a payload

\* a chunk ends inside a payload at most this many bytes after its start
MaxApart == 5

\* the messages clients send
PayloadStreams ==
    { \* a text message of three frames: six bytes, none, five bytes; then a
      \* binary message
      << Frame(FALSE, 0, 1, ClientMask, <<1, 2, 3, 4, 5, 6>>),
         Frame(FALSE, 0, 0, ClientMask, <<>>),
         Frame(TRUE, 0, 0, ClientMask, <<7, 8, 9, 10, 11>>),
         Frame(TRUE, 0, 2, ClientMask, <<12>>) >>,
      \* a binary message of 126 bytes (the 16-bit length), then a text message
      << Frame(TRUE, 0, 2, ClientMask, [i \in 1..126 |-> (7 * i) % 256]),
         Frame(TRUE, 0, 1, ClientMask, <<104, 105, 106>>) >>,
      \* a binary frame that announces 2^32 bytes
      << [Frame(TRUE, 0, 2, ClientMask, <<1, 2, 3, 4, 5, 6, 7>>)
            EXCEPT !.huge = TRUE] >>,
      \* a text message in two frames with a ping between them, then a text
      \* message
      << Frame(FALSE, 0, 1, ClientMask, <<104, 105>>),
         Frame(TRUE, 0, 9, ClientMask, <<97, 98, 99, 100, 101>>),
         Frame(TRUE, 0, 0, ClientMask, <<33>>),
         Frame(TRUE, 0, 1, ClientMask, <<63>>) >>,
      \* a text message in two frames with a pong between them
      << Frame(FALSE, 0, 1, ClientMask, <<104>>),
         Frame(TRUE, 0, 10, ClientMask, <<>>),
         Frame(TRUE, 0, 0, ClientMask, <<33>>) >>,
      \* a text frame that is not final, a ping, and a binary message
      << Frame(FALSE, 0, 1, ClientMask, <<104, 105>>),
         Frame(TRUE, 0, 9, ClientMask, <<97>>),
         Frame(TRUE, 0, 2, ClientMask, <<33>>),
         Frame(TRUE, 0, 0, ClientMask, <<34>>) >>,
      \* two messages of one frame, the first without payload
      << Frame(TRUE, 0, 1, ClientMask, <<>>),
         Frame(TRUE, 0, 2, ClientMask, <<1, 2, 3, 4, 5>>) >>,
      \* a second text frame while the first message is open
      << Frame(FALSE, 0, 1, ClientMask, <<104>>),
         Frame(TRUE, 0, 1, ClientMask, <<105>>) >> }

\* a chunk may end after `at` bytes of the stream: inside a header, up to
\* MaxApart bytes into a payload, or up to two bytes before its end
RECURSIVE CutAt(_, _, _)
CutAt(stream, k, at) ==
    IF k > Len(stream) THEN TRUE
    ELSE LET header == Len(ClientHeader(stream[k]))
             payload == Len(stream[k].payload)
         IN IF at <= header + MaxApart
            THEN TRUE
            ELSE IF at < header + payload - 2 THEN FALSE
            ELSE IF at <= header + payload THEN TRUE
            ELSE CutAt(stream, k + 1, at - header - payload)

InitP ==
    /\ QueueIdle
    /\ ChamberIdle
    /\ DirectoryIdle
    /\ codec = <<>>
    /\ server = <<>>
    /\ \E stream \in PayloadStreams :
          wsc = [connection |-> UpgradedConnection, stream |-> stream,
                 inbound |-> ClientBytes(stream), received |-> 0,
                 appCalls |-> 0, peerEnded |-> FALSE, socketClosed |-> FALSE]

\* the socket's 'data': the next n bytes of the client arrive (_data)
PReceive(n) ==
    /\ ~wsc.connection.destroyed
    /\ ~wsc.socketClosed
    /\ CutAt(wsc.stream, 1, wsc.received + n)
    /\ wsc' = [wsc EXCEPT
                  !.connection = WsData(@, SubSeq(wsc.inbound, 1, n)),
                  !.inbound = Slice(@, n),
                  !.received = @ + n]
    /\ UNCHANGED <<qvars, cvars, dvars, codec, server>>

\* the socket's 'close' (_close)
PSocketClosed ==
    /\ ~wsc.socketClosed
    /\ wsc' = [wsc EXCEPT !.connection = WsOnClose(@), !.socketClosed = TRUE,
                          !.inbound = <<>>]
    /\ UNCHANGED <<qvars, cvars, dvars, codec, server>>

NextP ==
    \/ \E n \in 1..Len(wsc.inbound) : PReceive(n)
    \/ PSocketClosed

SpecP == InitP /\ [][NextP]_vars

-----------------------------------------------------------------------------
\* The events of the inbound messages (SpecP)

\* the event of entry i of the log, "" for what is no event
EventAt(log, i) == IF log[i].kind = "emit" THEN log[i].name ELSE ""

\* the events of the log from entry i on are well bracketed, when open is
\* the opcode of the open message (0 for none), parts the message-part
\* events it had, fin the fin of the last of them and frameFin the fin of
\* the open frame: the opcode of the message left open (0 for none), or -1
\* when the bracketing is broken
RECURSIVE Bracketed(_, _, _, _, _, _)
Bracketed(log, i, open, parts, fin, frameFin) ==
    IF i > Len(log) THEN open
    ELSE IF EventAt(log, i) = "message-start"
    THEN IF open # 0 \/ log[i].arg.opcode = 0 THEN -1
         ELSE Bracketed(log, i + 1, log[i].arg.opcode, 0, FALSE, FALSE)
    ELSE IF EventAt(log, i) = "frame-start"
    THEN IF open = 0 \/ fin THEN -1
         ELSE Bracketed(log, i + 1, open, parts, fin, log[i].arg.fin)
    ELSE IF EventAt(log, i) = "message-part"
    THEN IF open = 0 \/ fin \/ log[i].arg.opcode # open
            \/ (log[i].arg.fin /\ ~frameFin)
         THEN -1
         ELSE Bracketed(log, i + 1, open, parts + 1, log[i].arg.fin, frameFin)
    ELSE IF EventAt(log, i) = "frame-end"
    THEN IF open = 0 \/ parts = 0 \/ fin # frameFin THEN -1
         ELSE Bracketed(log, i + 1, open, parts, fin, frameFin)
    ELSE IF EventAt(log, i) = "message-end"
    THEN IF open = 0 \/ parts = 0 \/ ~fin THEN -1
         ELSE Bracketed(log, i + 1, 0, 0, FALSE, FALSE)
    ELSE Bracketed(log, i + 1, open, parts, fin, frameFin)

\* C31: the events of a connection are well bracketed: a message-start, one
\* or more message-part events with the opcode of the message's first frame,
\* fin on the last part of the final frame only, and one message-end before
\* the next message-start; lastNonContOpcode is the opcode of the open
\* message while one is open and 0 while none is.
C31_WellBracketed ==
    LET open == Bracketed(wsc.connection.log, 1, 0, 0, FALSE, FALSE)
    IN /\ open # -1
       /\ wsc.connection.lastNonContOpcode = open

\* the opcode of the message that is open when frame k arrives
RECURSIVE OpenOpcode(_, _)
OpenOpcode(stream, k) ==
    IF k = 1 THEN 0
    ELSE IF IsControl(stream[k - 1]) THEN OpenOpcode(stream, k - 1)
    ELSE IF stream[k - 1].fin THEN 0
    ELSE IF stream[k - 1].opcode # 0 THEN stream[k - 1].opcode
    ELSE OpenOpcode(stream, k - 1)

\* frame k is a ping or a pong between the fragments of a message, the
\* frames before it were taken, and it has arrived
ControlBetween(k) ==
    /\ wsc.stream[k].opcode \in {9, 10}
    /\ ~Violates(wsc.stream, k)
    /\ OpenBefore(wsc.stream, k)
    /\ TakenBefore(wsc.stream, k)
    /\ wsc.received >= WireEnd(wsc.stream, k)

\* C35: a ping or pong between the fragments of a message leaves the open
\* message as it was: lastNonContOpcode keeps its value, no message-end is
\* emitted for it, and the continuation frame that follows is taken as part
\* of the same message.
C35_ControlKeepsMessage ==
    \A k \in DOMAIN wsc.stream :
        (ControlBetween(k) /\ k + 1 \in DOMAIN wsc.stream) =>
            /\ wsc.received < HeaderEnd(wsc.stream, k + 1)
               => /\ wsc.connection.lastNonContOpcode = OpenOpcode(wsc.stream, k)
                  /\ EmitsOf(wsc.connection.log, "message-end") = <<>>
            /\ (/\ wsc.stream[k + 1].opcode = 0
                /\ wsc.received >= WireEnd(wsc.stream, k + 1)
                /\ k + 2 \in DOMAIN wsc.stream
                      => wsc.received < HeaderEnd(wsc.stream, k + 2))
               => /\ EmitsOf(wsc.connection.log, "error") = <<>>
                  /\ PartsData(wsc.connection.log, Len(wsc.connection.log))
                        = DataBefore(wsc.stream, k + 2)
                  /\ Len(EmitsOf(wsc.connection.log, "message-end")) = 1

\* frame k is taken by the connection: no violation up to it, and no
\* control frame inside an open message before it
FrameTaken(stream, k) ==
    \A j \in 1..k :
        /\ ~Violates(stream, j)
        /\ j < k => ~Stops(stream, j)
        /\ ~(IsControl(stream[j]) /\ OpenBefore(stream, j))

\* the frame whose header arrived last, 0 when no header is complete
CurrentFrame ==
    LET begun == {k \in DOMAIN wsc.stream : HeaderEnd(wsc.stream, k) <= wsc.received}
    IN IF begun = {} THEN 0 ELSE CHOOSE k \in begun : \A j \in begun : j <= k

\* the bytes of the payload of frame k that have arrived
Arrived(k) ==
    LET after == wsc.received - HeaderEnd(wsc.stream, k)
    IN IF after <= 0 THEN 0
       ELSE IF after >= Len(wsc.stream[k].payload) THEN Len(wsc.stream[k].payload)
       ELSE after

\* the payloads of the pings that have arrived whole among the first k frames
RECURSIVE PingsBefore(_, _)
PingsBefore(stream, k) ==
    IF k = 0 THEN <<>>
    ELSE PingsBefore(stream, k - 1)
         \o (IF stream[k].opcode = 9 /\ WireEnd(stream, k) <= wsc.received
             THEN <<stream[k].payload>> ELSE <<>>)

\* the payloads the ping events of the log carry
PingsOf(log) == [i \in 1..Len(EmitsOf(log, "ping")) |-> log[EmitsOf(log, "ping")[i]].arg.data]

\* the length that is left of the open frame k, as lengthH and lengthL
LengthLeft(k) ==
    LET f == wsc.stream[k]
    IN IF ~f.huge
       THEN [lengthH |-> <<0, 0>>, lengthL |-> <<f.len - Arrived(k), 0>>]
       ELSE IF Arrived(k) = 0
       THEN [lengthH |-> <<1, 0>>, lengthL |-> <<0, 0>>]
       ELSE [lengthH |-> <<0, 0>>, lengthL |-> <<Limb - Arrived(k), Limb - 1>>]

-----------------------------------------------------------------------------
\* SpecT: one OutputQueue used through all of its public operations by callers
\* that carry on after an exception of addFrame (the item stays queued), so
\* that the queue comes to hold several frames of one sender

\* the connections that call addFrame in SpecT
TConns == {1, 2}

InitT ==
    /\ \E limits \in LimitChoices : oq = NewOutputQueue(NewConnection, limits)
    /\ pos = [s \in QConns \cup {ChamberSender} |-> NewPos]
    /\ calls = 0
    /\ lastCall = [op |-> "new", sender |-> Null, threw |-> FALSE, aborts |-> 0,
                   spins |-> FALSE, active |-> Null, tag |-> <<0, 0, 0>>]
    /\ overflowed = {}
    /\ ChamberIdle
    /\ DirectoryIdle
    /\ WireIdle

\* addFrame(s, info) with the sender's next frame, whether or not an earlier
\* call raised
TAddFrame(s, fin) ==
    /\ calls < MaxCalls
    /\ LET p == pos[s]
           tag == <<p.msg, p.idx, calls + 1>>
           info == [data |-> Payload, opcode |-> OpcodeOf(s),
                    continuation |-> (p.state = "open"), fin |-> fin, tag |-> tag]
       IN \E r \in {AddFrame(oq, s, info)} :
              /\ oq' = r.q
              /\ pos' = [pos EXCEPT ![s] =
                    IF fin THEN [msg |-> p.msg + 1, idx |-> 1, state |-> "idle"]
                    ELSE [p EXCEPT !.idx = @ + 1, !.state = "open"]]
              /\ lastCall' = [op |-> "addFrame", sender |-> s, threw |-> r.threw,
                              aborts |-> r.aborts, spins |-> r.spins,
                              active |-> oq.activeSender, tag |-> tag]
    /\ calls' = calls + 1
    /\ UNCHANGED <<overflowed, cvars, dvars, wvars>>

\* add(chamber, 'H')
TAdd ==
    /\ calls < MaxCalls
    /\ LET p == pos[ChamberSender]
           tag == <<p.msg, 1, calls + 1>>
       IN \E r \in {Add(oq, ChamberSender, <<"H">>, tag)} :
              /\ oq' = r.q
              /\ pos' = [pos EXCEPT ![ChamberSender] = [p EXCEPT !.msg = @ + 1]]
              /\ lastCall' = [op |-> "add", sender |-> ChamberSender,
                              threw |-> r.threw, aborts |-> r.aborts,
                              spins |-> r.spins, active |-> oq.activeSender,
                              tag |-> tag]
    /\ calls' = calls + 1
    /\ UNCHANGED <<overflowed, cvars, dvars, wvars>>

\* abortCurrent()
TAbortCurrent ==
    /\ calls < MaxCalls
    /\ oq' = AbortCurrent(oq)
    /\ lastCall' = [op |-> "abortCurrent", sender |-> Null, threw |-> FALSE,
                    aborts |-> 0, spins |-> FALSE, active |-> oq.activeSender,
                    tag |-> <<0, 0, calls + 1>>]
    /\ calls' = calls + 1
    /\ UNCHANGED <<pos, overflowed, cvars, dvars, wvars>>

\* removeSender(s)
TRemoveSender(s) ==
    /\ calls < MaxCalls
    /\ oq' = RemoveSender(oq, s)
    /\ lastCall' = [op |-> "removeSender", sender |-> s, threw |-> FALSE,
                    aborts |-> 0, spins |-> FALSE, active |-> oq.activeSender,
                    tag |-> <<0, 0, calls + 1>>]
    /\ calls' = calls + 1
    /\ UNCHANGED <<pos, overflowed, cvars, dvars, wvars>>

\* closeSender(s)
TCloseSender(s) ==
    /\ calls < MaxCalls
    /\ oq' = CloseSender(oq, s)
    /\ lastCall' = [op |-> "closeSender", sender |-> s, threw |-> FALSE,
                    aborts |-> 0, spins |-> FALSE, active |-> oq.activeSender,
                    tag |-> <<0, 0, calls + 1>>]
    /\ calls' = calls + 1
    /\ UNCHANGED <<pos, overflowed, cvars, dvars, wvars>>

NextT ==
    \/ \E s \in TConns, fin \in BOOLEAN : TAddFrame(s, fin)
    \/ TAdd
    \/ TAbortCurrent
    \/ \E s \in TConns : TRemoveSender(s)
    \/ \E s \in TConns : TCloseSender(s)

SpecT == InitT /\ [][NextT]_vars

-----------------------------------------------------------------------------
\* Properties of the public operations of one OutputQueue (SpecT)

\* C36: after every public operation of the queue (addFrame, add,
\* abortCurrent, removeSender, closeSender), if activeSender is null the queue
\* is empty, and no item of the active sender waits in the queue.
C36_QueueWaitsOnlyBehindOthers ==
    /\ oq.activeSender = Null => oq.queue = <<>>
    /\ \A i \in 1..Len(oq.queue) : oq.queue[i].sender # oq.activeSender

\* C36 witness: the last operation found another sender's message in flight
\* and made the queue pass over a waiting item twice: a message that began and
\* ended inside the queue was written, and after it an item that had been
\* handed over between its frames
C36_Witness ==
    \E k, i, j \in 1..Len(Written) :
        /\ k < i /\ i < j
        /\ Written[k].from \in TConns
        /\ Written[k].tag[2] = 1
        /\ ~Written[k].fin
        /\ Written[i].from = Written[k].from
        /\ Written[i].tag[1] = Written[k].tag[1]
        /\ Written[i].opcode = 0
        /\ Written[i].fin
        /\ Written[j].from \notin {Null, Written[i].from}
        /\ Written[j].tag[3] < Written[i].tag[3]
        /\ Written[j].tag[3] > Written[k].tag[3]
        /\ lastCall.active \notin {Null, Written[i].from, Written[j].from}
        /\ oq.activeSender = Null
        /\ oq.queue = <<>>

\* the states in which _consumeQueue is entered from the present queue: no
\* active sender (after abortCurrent or a final frame), with the queue as it
\* is or with one more item pushed by addFrame
ConsumeEntries ==
    {[oq EXCEPT !.activeSender = Null]} \cup
    {[oq EXCEPT !.activeSender = Null,
                !.queue = QueuePush(@,
                    [sender |-> s,
                     info |-> [data |-> Payload, opcode |-> OpcodeOf(s),
                               continuation |-> (pos[s].state = "open"),
                               fin |-> fin, tag |-> <<0, 0, 0>>]])] :
        s \in TConns, fin \in BOOLEAN}

\* every pass of _consumeQueue from q on that requests a rewind leaves the
\* queue shorter than it found it
RECURSIVE RewindsShrink(_)
RewindsShrink(q) ==
    LET Passed(pass) ==
            pass.skip =>
                /\ Len(pass.q.queue) < Len(q.queue)
                /\ RewindsShrink(pass.q)
    IN Passed(ConsumePass(q, 1, 0, FALSE))

\* C40: every operation of the queue terminates, for limits 0/0 as for the
\* others: the capacity loop of addFrame is never left spinning (no active
\* sender while the queue is beyond a cap), it calls abortCurrent at most once
\* for the one item pushed, and every pass of _consumeQueue that
\* requests a rewind has removed at least one item.
C40_OperationsTerminate ==
    /\ ~lastCall.spins
    /\ lastCall.aborts <= 1
    /\ \A e \in ConsumeEntries : RewindsShrink(e)

\* C40 witness: an addFrame call pushed the final frame of a message behind
\* another sender's message, the capacity loop aborted that message, and the
\* queue was then consumed with a rewind: the pushed frame was written before
\* an item that had been handed over earlier
C40_Witness ==
    /\ lastCall.op = "addFrame"
    /\ lastCall.aborts >= 1
    /\ ~lastCall.threw
    /\ \E i, j \in 1..Len(Written) :
          /\ i < j
          /\ Written[i].from = lastCall.sender
          /\ Written[i].tag = lastCall.tag
          /\ Written[i].opcode = 0
          /\ Written[i].fin
          /\ Written[j].from \notin {Null, lastCall.sender}
          /\ Written[j].tag[3] < lastCall.tag[3]

-----------------------------------------------------------------------------
\* Properties of _pickOneTarget (Spec)

\* the peer record of the member with this id
MemberOf(id) == chamber.details[MapGet(chamber.connections, id)]

\* the exclude sets explored: every set of member ids, in map order
ExcludeChoices ==
    {SelectSeq(Keys(chamber.connections), LAMBDA id : id \in S) : S \in SUBSET MemberIds}

\* the place of a peer in the order the target choice is meant to follow:
\* established before new, then empty queue before non-empty, then not
\* mid-inbound-message before mid-inbound-message
TargetRank(d) ==
    (IF d.joined < now - ESTABLISHED_MS THEN 0 ELSE 4)
    + (IF Len(d.queue.queue) = 0 THEN 0 ELSE 2)
    + (IF d.headerLength = 0 THEN 0 ELSE 1)

\* C34: _pickOneTarget(exclude) never returns an excluded id, returns null
\* exactly when every member is excluded, and otherwise returns, for every
\* outcome of the shuffle, a candidate that no other candidate precedes in
\* the order established, empty queue, not mid-inbound-message.
C34_PickIsMinimal ==
    \A exclude \in ExcludeChoices :
        LET candidates == {id \in MemberIds : ~SetHas(exclude, id)}
        IN \A pick \in PickOneTarget(chamber, exclude, now) :
              /\ pick = <<>> <=> candidates = {}
              /\ pick # <<>> =>
                    /\ pick \in candidates
                    /\ \A other \in candidates :
                          TargetRank(MemberOf(pick)) <= TargetRank(MemberOf(other))

-----------------------------------------------------------------------------
\* SpecR: one chamber whose peers may also begin a message while their last
\* one is open. The connection lets a client do so: the end of a ping or pong
\* frame resets lastNonContOpcode, and _beginFrame then takes the next text or
\* binary frame as the start of a message and emits message-start.

\* the inbound messages of SpecR: two parts to every other peer, and a
\* header for everyone with one further part
RestartMessages == {1, 2}

\* a control frame and then a data frame that is not a continuation arrive
\* from connection c inside its open message: message-start is emitted again
\* and the parts that follow belong to the new message
MessageRestart(c, m) ==
    /\ ~crashed
    /\ sock[c] = "open"
    /\ inbound[c].parts # <<>>
    /\ Len(inbound[c].parts) < Len(Messages[inbound[c].msg])
    /\ ops < MaxOps
    /\ chamber' = ReceiveStart(chamber, c)
    /\ inbound' = [inbound EXCEPT ![c] = [msg |-> m, parts |-> Messages[m]]]
    /\ ops' = ops + 1
    /\ lastOp' = [op |-> "receiveStart", ref |-> c, threw |-> "no"]
    /\ UNCHANGED <<sock, now, crashed, events, qvars, dvars, wvars>>

NextR ==
    \/ \E c \in Conns : Join(c)
    \/ \E c \in Conns, m \in RestartMessages : MessageStart(c, m)
    \/ \E c \in Conns, m \in RestartMessages : MessageRestart(c, m)
    \/ \E c \in Conns : MessagePart(c, <<>>)
    \/ \E c \in Conns : SocketClose(c)

SpecR == Init /\ [][NextR]_vars

-----------------------------------------------------------------------------
\* Properties of the frames written to the peers of a chamber

\* the data frames written to the socket of peer ref, in order
DataFramesTo(ref) ==
    SelectSeq(chamber.details[ref].queue.connection.written, LAMBDA f : f.opcode < 8)

\* a frame sequence is a well-formed message stream: a frame is a
\* continuation exactly when the frame before it was not final
WellFormedStream(w) ==
    \A i \in 1..Len(w) : (w[i].opcode = 0) <=> (i > 1 /\ ~w[i - 1].fin)

\* the 'X' message comes only directly after the continuation-fin of
\* abortCurrent
MarkerBeforeNotice(w) ==
    \A i \in 1..Len(w) :
        IsTruncationNotice(w[i]) => (i > 1 /\ IsAbortMarker(w[i - 1]))

\* C37: the frames written to each receiver form a well-formed message
\* stream: a continuation frame is written only while a message is open on
\* the receiver, another data frame only while none is open, so that every
\* message is closed by the one final frame that follows its frames, and 'X'
\* is written only directly after the synthetic closing frame.
C37_WrittenStreamWellFormed ==
    \A ref \in DOMAIN chamber.details :
        /\ WellFormedStream(DataFramesTo(ref))
        /\ MarkerBeforeNotice(DataFramesTo(ref))

\* item h handed to the queue of peer ref is a frame of a message of which
\* the peer was never handed the first frame: the message began before the
\* peer joined
FragmentHanded(ref, h) ==
    LET handed == HandedTo(ref)
    IN /\ handed[h].sender \in Conns
       /\ handed[h].info.continuation
       /\ \A k \in 1..(h - 1) :
             ~ /\ handed[k].sender = handed[h].sender
               /\ ~handed[k].info.continuation
               /\ handed[k].info.tag[1] = handed[h].info.tag[1]

\* C38: a peer is written no frame of a message that was in progress when it
\* joined: every frame of a sender written to it belongs to a message whose
\* first frame was written to it before, so the continuation frames handed to
\* its queue for the earlier message are discarded.
C38_JoinerGetsNoFragment ==
    \A ref \in DOMAIN chamber.details :
        LET w == DataFramesTo(ref)
        IN \A i \in 1..Len(w) :
              (w[i].from \in Conns /\ w[i].opcode = 0) =>
                  \E k \in 1..(i - 1) :
                      /\ w[k].from = w[i].from
                      /\ w[k].opcode # 0
                      /\ w[k].tag[1] = w[i].tag[1]
                      /\ \A l \in (k + 1)..(i - 1) : w[l].from = w[i].from

\* C38 witness: a peer that joined inside a message which names its id was
\* handed a continuation frame of it while the message of another sender was
\* in flight on its queue, and has been written nothing of the earlier message
C38_Witness ==
    \E ref \in DOMAIN chamber.details :
        /\ sock[ref] = "open"
        /\ \E h \in 1..Len(HandedTo(ref)) :
              /\ FragmentHanded(ref, h)
              /\ HandedTo(ref)[h].found \notin {Null, HandedTo(ref)[h].sender}
              /\ \A i \in 1..Len(DataFramesTo(ref)) :
                    DataFramesTo(ref)[i].from # HandedTo(ref)[h].sender

\* frame f is the welcome message of the peer with id n: a text message of
\* the chamber that begins with 'I<n>'
IsWelcome(f, n) ==
    /\ f.from = ChamberSender
    /\ f.opcode = 1
    /\ f.fin
    /\ Len(f.data) >= 1 + Len(n)
    /\ SubSeq(f.data, 1, 1 + Len(n)) = <<"I">> \o n

\* C33: the first frame written to a peer that has joined is its welcome
\* message 'I<id>...'; when add returns, every peer that was there before has
\* been handed 'H<id>' as its latest item, the welcome message names each of
\* them (it is put together while they are notified, and handed over last),
\* and the joiner has been written the welcome message and nothing else.
C33_WelcomeFirstAfterNotices ==
    \A c \in DOMAIN chamber.details :
        LET n == chamber.details[c].id
            others == Members \ {c}
        IN /\ WrittenTo(c) # <<>>
           /\ IsWelcome(WrittenTo(c)[1], n)
           /\ (lastOp.op = "add" /\ lastOp.ref = c) =>
                 /\ Len(WrittenTo(c)) = 1
                 /\ WrittenTo(c)[1].data =
                       HandedTo(c)[Len(HandedTo(c))].info.data
                 /\ \A p \in others :
                       /\ HandedTo(p) # <<>>
                       /\ HandedTo(p)[Len(HandedTo(p))].sender = ChamberSender
                       /\ HandedTo(p)[Len(HandedTo(p))].info.data = <<"H">> \o n
                       /\ \E i \in 2..Len(Split(WrittenTo(c)[1].data, ":")) :
                             Split(WrittenTo(c)[1].data, ":")[i]
                                 = <<"H">> \o chamber.details[p].id

-----------------------------------------------------------------------------
\* SpecQL: the OutputQueue of SpecQ with two senders that go on: a sender whose
\* message is open on the receiver hands over its final frame or leaves, and
\* a sender whose call raised is closed by its connection's error handler and
\* leaves

\* SpecQL: number of addFrame and add calls explored
MaxFairCalls == 3

\* sender s ends its open message, or leaves (the chamber calls closeSender)
QFinish(s) ==
    /\ pos[s].state \in {"open", "failed"}
    /\ \/ calls < MaxFairCalls /\ QAddFrame(s, TRUE)
       \/ QCloseSender(s)

NextQL ==
    \/ \E s \in TConns, fin \in BOOLEAN : calls < MaxFairCalls /\ QAddFrame(s, fin)
    \/ calls < MaxFairCalls /\ QAdd
    \/ \E s \in TConns : QCloseSender(s)

SpecQL ==
    /\ InitQ
    /\ [][NextQL]_vars
    /\ \A s \in TConns : WF_vars(QFinish(s))

\* C39: when every sender with an open message goes on to its final frame or
\* leaves, no frame or notification stays in the queue for ever: whenever
\* the queue holds items, it is empty again later on, each item having been
\* written or discarded.
C39_QueueDrains == (oq.queue # <<>>) ~> (oq.queue = <<>>)

\* C39 witness: a notification of the chamber and a frame of a sender both
\* wait in the queue behind the open message of another sender
C39_Witness ==
    /\ oq.activeSender \in QConns
    /\ \E i, j \in 1..Len(oq.queue) :
          /\ oq.queue[i].sender = ChamberSender
          /\ oq.queue[j].sender \in QConns \ {oq.activeSender}

====
